---- MODULE Spec2Model ----
(***************************************************************************)
(* A model of need2no (n2n): the PAN detection primitives                  *)
(* (n2n/primitives/card_pan.py) and the decision / redaction /             *)
(* verification state machines of the three packs (n2n/packs/*.py).        *)
(*                                                                         *)
(* Text is a sequence of one-character strings.  Confidences are integers  *)
(* in hundredths (0.75 is 75); an average is kept as (sum, count) and      *)
(* compared by cross-multiplication.  Coordinates are integers.            *)
(***************************************************************************)
EXTENDS Integers, Sequences, FiniteSets, TLC

\* ------------------------------------------------------------------------
\* Generic helpers
\* ------------------------------------------------------------------------

SetMax(S) == CHOOSE x \in S : \A y \in S : y <= x

SetMin(S) == CHOOSE x \in S : \A y \in S : x <= y

RECURSIVE Concat(_)
\* "".join(parts): the concatenation of a sequence of texts
Concat(parts) ==
    IF parts = <<>> THEN <<>> ELSE Head(parts) \o Concat(Tail(parts))

\* "".join(parts) where " ".join(parts) is meant
JoinSpace_no_separator(parts) == Concat(parts)

RECURSIVE JoinSpace(_)
\* " ".join(parts)
JoinSpace(parts) ==
    IF parts = <<>> THEN <<>>
    ELSE IF Len(parts) = 1 THEN Head(parts)
    ELSE Head(parts) \o <<" ">> \o JoinSpace(Tail(parts))

\* needle in text (Python's substring test)
Contains(text, needle) ==
    \E i \in 1..(Len(text) - Len(needle) + 1) :
        SubSeq(text, i, i + Len(needle) - 1) = needle

\* len([x for x in seq if P(x)])
Count(seq, P(_)) == Cardinality({i \in 1..Len(seq) : P(seq[i])})

\* ------------------------------------------------------------------------
\* Characters
\* ------------------------------------------------------------------------

Digit == {"0", "1", "2", "3", "4", "5", "6", "7", "8", "9"}

\* The letters of the modelled alphabet ("U+00E2" stands for the one
\* character a-circumflex, the first character of the second masked marker).
AsciiLetter == {"O", "o", "I", "i", "l", "S", "s", "B", "b", "Z", "z",
                "C", "a", "r", "d", "x"}

Letter == AsciiLetter \cup {"U+00E2"}

Whitespace == {" "}

isdigit(ch) == ch \in Digit

isalnum(ch) == ch \in Digit \cup Letter

DigitValue(ch) ==
    CASE ch = "0" -> 0 [] ch = "1" -> 1 [] ch = "2" -> 2 [] ch = "3" -> 3
      [] ch = "4" -> 4 [] ch = "5" -> 5 [] ch = "6" -> 6 [] ch = "7" -> 7
      [] ch = "8" -> 8 [] ch = "9" -> 9

CONFUSABLE_MAP ==
    [ch \in {"O", "o", "I", "i", "l", "S", "s", "B", "b", "Z", "z"} |->
        CASE ch \in {"O", "o"} -> "0"
          [] ch \in {"I", "i", "l"} -> "1"
          [] ch \in {"S", "s"} -> "5"
          [] ch \in {"B", "b"} -> "8"
          [] ch \in {"Z", "z"} -> "2"]

\* The source file holds the second marker as the three characters
\* U+00E2 U+20AC U+00A2, not as the bullet U+2022.
MASKED_MARKERS == {<<"*">>, <<"U+00E2", "U+20AC", "U+00A2">>}

_ALLOWED_PATTERN_CHARS == Digit \cup DOMAIN CONFUSABLE_MAP

\* text.strip()
RECURSIVE lstrip(_)
lstrip(text) ==
    IF text # <<>> /\ Head(text) \in Whitespace THEN lstrip(Tail(text)) ELSE text

RECURSIVE rstrip(_)
rstrip(text) ==
    IF text # <<>> /\ text[Len(text)] \in Whitespace
    THEN rstrip(SubSeq(text, 1, Len(text) - 1)) ELSE text

strip(text) == rstrip(lstrip(text))

\* re.sub(r"[^0-9]", "", text)
DigitsOnly(text) == SelectSeq(text, isdigit)

\* ------------------------------------------------------------------------
\* PAN_RE: (?<![C])(?:[C][ \-]*){13,19}(?![C]) with C = _ALLOWED_PATTERN_CHARS
\* ------------------------------------------------------------------------

IsSep(ch) == ch \in {" ", "-"}

RECURSIVE SkipSeps(_, _)
\* the first position >= p of text that holds no separator (Len + 1 at the end)
SkipSeps(text, p) ==
    IF p <= Len(text) /\ IsSep(text[p]) THEN SkipSeps(text, p + 1) ELSE p

RECURSIVE PatternChain(_, _, _)
\* the positions of the class characters the groups [C][ \-]* take from p on,
\* at most 19 of them
PatternChain(text, p, acc) ==
    LET acc2 == Append(acc, p)
        q == SkipSeps(text, p + 1)
    IN  IF Len(acc2) = 19 THEN acc2
        ELSE IF q <= Len(text) /\ text[q] \in _ALLOWED_PATTERN_CHARS
             THEN PatternChain(text, q, acc2)
             ELSE acc2

\* The match of PAN_RE that starts at s, as <<first, last, next>>: first and
\* last are the positions of its first and last class character and next is
\* the position after the match; <<>> when no match starts at s.  The
\* repetition is greedy: the largest group count wins, then the longest run of
\* trailing separators whose follower is no class character.
PAN_RE_match(text, s) ==
    LET EndFull(p) == SkipSeps(text, p + 1)
        Ahead(e) == e > Len(text) \/ text[e] \notin _ALLOWED_PATTERN_CHARS
        Ends(last, e) == <<s, last, IF Ahead(e) THEN e ELSE e - 1>>
        Longest(chain, ks) ==
            IF ks = {} THEN <<>>
            ELSE Ends(chain[SetMax(ks)], EndFull(chain[SetMax(ks)]))
        Groups(chain) ==
            Longest(chain, {k \in 13..Len(chain) :
                               \/ Ahead(EndFull(chain[k]))
                               \/ EndFull(chain[k]) - 1 > chain[k]})
    IN  IF ~(text[s] \in _ALLOWED_PATTERN_CHARS
             /\ (s = 1 \/ text[s - 1] \notin _ALLOWED_PATTERN_CHARS))
        THEN <<>>
        ELSE Groups(PatternChain(text, s, <<>>))

RECURSIVE PAN_RE_finditer(_, _)
\* the non-overlapping matches from position from on, leftmost first
PAN_RE_finditer(text, from) ==
    LET Rest(m) == IF m = <<>> THEN PAN_RE_finditer(text, from + 1)
                   ELSE <<m>> \o PAN_RE_finditer(text, m[3])
    IN  IF from > Len(text) THEN <<>> ELSE Rest(PAN_RE_match(text, from))

\* PAN_RE.search(text): the first match or <<>>
PAN_RE_search(text) ==
    LET First(ms) == IF ms = <<>> THEN <<>> ELSE ms[1]
    IN  First(PAN_RE_finditer(text, 1))

\* ------------------------------------------------------------------------
\* Checksum, masking, normalisation
\* ------------------------------------------------------------------------

RECURSIVE LuhnTotal_no_fold(_, _, _)
\* LuhnTotal with the "value -= 9" of a doubled digit above 9 left out
LuhnTotal_no_fold(digits, i, parity) ==
    IF i > Len(digits) THEN 0
    ELSE LET value == DigitValue(digits[i])
         IN  (IF (i - 1) % 2 = parity THEN 2 * value ELSE value)
             + LuhnTotal_no_fold(digits, i + 1, parity)

RECURSIVE LuhnTotal(_, _, _)
LuhnTotal(digits, i, parity) ==
    IF i > Len(digits) THEN 0
    ELSE LET value == DigitValue(digits[i])
             doubled == IF 2 * value > 9 THEN 2 * value - 9 ELSE 2 * value
         IN  (IF (i - 1) % 2 = parity THEN doubled ELSE value)
             + LuhnTotal(digits, i + 1, parity)

\* _luhn with the parity of an even length whatever the length
_luhn_even_parity(digits) == LuhnTotal(digits, 1, 0) % 10 = 0

_luhn(digits) == LuhnTotal(digits, 1, Len(digits) % 2) % 10 = 0

RECURSIVE GroupsOfFour(_)
GroupsOfFour(text) ==
    IF Len(text) <= 4 THEN text
    ELSE SubSeq(text, 1, 4) \o <<" ">> \o GroupsOfFour(SubSeq(text, 5, Len(text)))

_mask(digits) ==
    LET n == Len(digits)
        keep == IF n > 4 THEN 4 ELSE n
        masked == [i \in 1..n |-> IF i <= n - keep THEN "*" ELSE digits[i]]
    IN  GroupsOfFour(masked)

_normalize_candidate(candidate, allow_confusable) ==
    IF \E marker \in MASKED_MARKERS : Contains(candidate, marker) THEN <<>>
    ELSE LET cleaned == [i \in 1..Len(candidate) |->
                            IF allow_confusable /\ candidate[i] \in DOMAIN CONFUSABLE_MAP
                            THEN CONFUSABLE_MAP[candidate[i]]
                            ELSE candidate[i]]
         IN  DigitsOnly(cleaned)

\* ------------------------------------------------------------------------
\* Spans, detections, configuration
\* ------------------------------------------------------------------------

\* TextSpan.ocr_conf is <<>> for None and <<c>> for the confidence c
NoConf == <<>>

\* span.ocr_conf or 1.0: a missing confidence read as full confidence
ConfOf_missing_as_full(span) == IF span.ocr_conf = NoConf THEN 100 ELSE span.ocr_conf[1]

\* span.ocr_conf or 0.0
ConfOf(span) == IF span.ocr_conf = NoConf THEN 0 ELSE span.ocr_conf[1]

TextSpan(text, bbox, page, source, ocr_conf) ==
    [text |-> text, bbox |-> bbox, page |-> page, source |-> source,
     ocr_conf |-> ocr_conf]

DetectionResult(field_id, text, raw, bbox, page, source, validators, severity) ==
    [field_id |-> field_id, text |-> text, raw |-> raw, bbox |-> bbox,
     page |-> page, source |-> source, validators |-> validators,
     severity |-> severity]

\* CardPanConfig with its defaults; ratios and confidences in hundredths
CardPanConfig(allow_lowercase_b_to_6) ==
    [ocr_conf_suspicion_threshold |-> 75,
     allow_confusable_normalization |-> TRUE,
     line_y_tol_px |-> 8,
     max_x_gap_px |-> 40,
     max_x_gap_ratio |-> 100,
     digitish_ratio |-> 50,
     stitch_window_min |-> 2,
     stitch_window_max |-> 6,
     allow_symbol_confusables |-> TRUE,
     allow_lowercase_b_to_6 |-> allow_lowercase_b_to_6,
     min_token_conf_threshold |-> 60]

\* source.lower() for the source tags in use
LowerSource(source) == IF source = "OCR" THEN "ocr" ELSE source

\* ------------------------------------------------------------------------
\* find_card_pans: single-token extraction
\* ------------------------------------------------------------------------

\* the sanitized copy of a token's text (find_card_pans, the loop over chars)
sanitized_text(raw_text) ==
    [idx \in 1..Len(raw_text) |->
        LET ch == raw_text[idx]
            prev_is_digit == idx > 1 /\ isdigit(raw_text[idx - 1])
            next_is_digit == idx < Len(raw_text) /\ isdigit(raw_text[idx + 1])
        IN  IF isdigit(ch) \/ ch \in {" ", "-"} THEN ch
            ELSE IF ch \in DOMAIN CONFUSABLE_MAP /\ (prev_is_digit \/ next_is_digit)
                 THEN ch
                 ELSE " "]

\* what one match of PAN_RE in the sanitized text contributes: a sequence of
\* zero or one detection
single_span_candidate(span, match, cfg, threshold) ==
    LET Emit(normalized) ==
            IF ~(13 <= Len(normalized) /\ Len(normalized) <= 19) THEN <<>>
            ELSE IF ~(\A i \in 1..Len(normalized) : isdigit(normalized[i])) THEN <<>>
            ELSE IF _luhn(normalized)
                 THEN <<DetectionResult("card_pan", _mask(normalized), normalized,
                                        span.bbox, span.page, span.source,
                                        <<"luhn">>, "hit")>>
            ELSE IF span.source = "ocr" /\ ConfOf(span) < threshold
                 THEN <<DetectionResult("card_pan", _mask(normalized), normalized,
                                        span.bbox, span.page, span.source,
                                        <<"regex">>, "suspicion")>>
            ELSE <<>>
    IN  Emit(_normalize_candidate(SubSeq(span.text, match[1], match[2]),
                                  cfg.allow_confusable_normalization))

single_span_detections(span, cfg, threshold) ==
    LET Each(matches) ==
            Concat([m \in 1..Len(matches) |->
                       single_span_candidate(span, matches[m], cfg, threshold)])
    IN  Each(PAN_RE_finditer(sanitized_text(span.text), 1))

\* ------------------------------------------------------------------------
\* find_card_pans: the span stitcher
\* ------------------------------------------------------------------------

\* k1 < k2 for keys that are pairs of integers (Python's tuple order)
KeyLess(k1, k2) == k1[1] < k2[1] \/ (k1[1] = k2[1] /\ k1[2] < k2[2])

RECURSIVE InsertByKey(_, _)
\* the pair x = <<key, item>> put after every pair whose key is not greater
InsertByKey(sorted, x) ==
    IF sorted = <<>> THEN <<x>>
    ELSE IF KeyLess(x[1], Head(sorted)[1]) THEN <<x>> \o sorted
    ELSE <<Head(sorted)>> \o InsertByKey(Tail(sorted), x)

RECURSIVE SortPairs(_)
SortPairs(pairs) ==
    IF pairs = <<>> THEN <<>>
    ELSE InsertByKey(SortPairs(SubSeq(pairs, 1, Len(pairs) - 1)), pairs[Len(pairs)])

\* sorted(seq, key=Key): stable, Key(item) a pair of integers
SortedBy(seq, Key(_)) ==
    LET pairs == SortPairs([i \in 1..Len(seq) |-> <<Key(seq[i]), seq[i]>>])
    IN  [i \in 1..Len(seq) |-> pairs[i][2]]

\* twice _y_center(bbox), to stay in the integers
YCenter2(bbox) == bbox[2] + bbox[4]

RECURSIVE GroupLinesFrom(_, _, _, _, _)
\* the loop of _group_lines; sum2 is twice the sum of the centers of current,
\* so that current_center = sum2 / (2 * Len(current))
GroupLinesFrom(rest, lines, current, sum2, tolerance) ==
    IF rest = <<>>
    THEN IF current = <<>> THEN lines ELSE Append(lines, current)
    ELSE LET span == Head(rest)
             c2 == YCenter2(span.bbox)
             n == Len(current)
             diff == IF c2 * n >= sum2 THEN c2 * n - sum2 ELSE sum2 - c2 * n
             \* abs(center - (current_center or center)) <= tolerance
             near == sum2 = 0 \/ diff <= 2 * tolerance * n
         IN  IF current = <<>>
             THEN GroupLinesFrom(Tail(rest), lines, <<span>>, c2, tolerance)
             ELSE IF near
                  THEN GroupLinesFrom(Tail(rest), lines, Append(current, span),
                                      sum2 + c2, tolerance)
                  ELSE GroupLinesFrom(Tail(rest), Append(lines, current), <<span>>,
                                      c2, tolerance)

_group_lines(spans, tolerance) ==
    LET Key(s) == <<YCenter2(s.bbox), s.bbox[1]>>
    IN  GroupLinesFrom(SortedBy(spans, Key), <<>>, <<>>, 0, tolerance)

_is_digitish(text, cfg) ==
    LET allowed_letters == DOMAIN CONFUSABLE_MAP
                           \cup (IF cfg.allow_lowercase_b_to_6 THEN {"b"} ELSE {})
        IsRelevant(ch) == isalnum(ch) \/ ch = "%"
        IsDigitish(ch) == \/ isdigit(ch)
                          \/ ch \in allowed_letters
                          \/ (ch = "%" /\ cfg.allow_symbol_confusables)
        relevant == Count(text, IsRelevant)
        digitish == Cardinality({i \in 1..Len(text) :
                                    IsRelevant(text[i]) /\ IsDigitish(text[i])})
    IN  /\ text # <<>>
        /\ relevant > 0
        /\ digitish * 100 >= cfg.digitish_ratio * relevant

_gaps_within_limits(window, cfg) ==
    \A i \in 1..(Len(window) - 1) :
        LET left == window[i]
            right == window[i + 1]
            gap == right.bbox[1] - left.bbox[3]
            left_h == IF left.bbox[4] > left.bbox[2] THEN left.bbox[4] - left.bbox[2] ELSE 0
            right_h == IF right.bbox[4] > right.bbox[2] THEN right.bbox[4] - right.bbox[2] ELSE 0
            \* avg_h = (left_h + right_h) / 2 or 1.0, doubled
            avg_h2 == IF left_h + right_h = 0 THEN 2 ELSE left_h + right_h
        IN  gap <= 0
            \/ ~(gap > cfg.max_x_gap_px /\ gap * 200 > cfg.max_x_gap_ratio * avg_h2)

\* _map_stitch_char with b read as 6 in every pass once the option is on
_map_stitch_char_any_pass(ch, cfg, allow_b_to_6) ==
    CASE ch \in {"O", "o"} -> "0"
      [] ch \in {"I", "i", "l"} -> "1"
      [] ch \in {"S", "s"} -> "5"
      [] ch = "B" -> "8"
      [] ch = "b" -> IF cfg.allow_lowercase_b_to_6 THEN "6" ELSE "8"
      [] ch \in {"Z", "z"} -> "2"
      [] ch = "%" /\ cfg.allow_symbol_confusables -> "4"
      [] OTHER -> ch

_map_stitch_char(ch, cfg, allow_b_to_6) ==
    CASE ch \in {"O", "o"} -> "0"
      [] ch \in {"I", "i", "l"} -> "1"
      [] ch \in {"S", "s"} -> "5"
      [] ch = "B" -> "8"
      [] ch = "b" -> IF allow_b_to_6 /\ cfg.allow_lowercase_b_to_6 THEN "6" ELSE "8"
      [] ch \in {"Z", "z"} -> "2"
      [] ch = "%" /\ cfg.allow_symbol_confusables -> "4"
      [] OTHER -> ch

_normalize_stitched_candidate(candidate_raw, cfg, allow_b_to_6) ==
    \* re.sub(r"[^0-9A-Za-z%]", "", candidate_raw)
    LET IsKept(ch) == isdigit(ch) \/ ch \in AsciiLetter \/ ch = "%"
        cleaned == SelectSeq(candidate_raw, IsKept)
        mapped == [i \in 1..Len(cleaned) |->
                      IF isdigit(cleaned[i]) THEN cleaned[i]
                      ELSE _map_stitch_char(cleaned[i], cfg, allow_b_to_6)]
    IN  SelectSeq(mapped, isdigit)

RECURSIVE SumConf(_)
SumConf(window) ==
    IF window = <<>> THEN 0 ELSE ConfOf(Head(window)) + SumConf(Tail(window))

\* _average_conf(window) as the pair <<sum, count>>
_average_conf(window) == <<SumConf(window), Len(window)>>

\* the largest token confidence taken for the smallest
MinConf_takes_max(window) == SetMax({ConfOf(window[i]) : i \in 1..Len(window)})

MinConf(window) == SetMin({ConfOf(window[i]) : i \in 1..Len(window)})

_window_bbox(window) ==
    <<SetMin({window[i].bbox[1] : i \in 1..Len(window)}),
      SetMin({window[i].bbox[2] : i \in 1..Len(window)}),
      SetMax({window[i].bbox[3] : i \in 1..Len(window)}),
      SetMax({window[i].bbox[4] : i \in 1..Len(window)})>>

\* the order without its comparison of average confidences
_is_better_candidate_ignores_conf(new, old) ==
    LET severity_order(sev) == IF sev = "hit" THEN 2 ELSE 1
    IN  IF severity_order(new.severity) # severity_order(old.severity)
        THEN severity_order(new.severity) > severity_order(old.severity)
        ELSE IF new.window_size # old.window_size
             THEN new.window_size > old.window_size
        ELSE new.x0 < old.x0

_is_better_candidate(new, old) ==
    LET severity_order(sev) == IF sev = "hit" THEN 2 ELSE 1
        newAvg == new.avg_conf[1] * old.avg_conf[2]
        oldAvg == old.avg_conf[1] * new.avg_conf[2]
    IN  IF severity_order(new.severity) # severity_order(old.severity)
        THEN severity_order(new.severity) > severity_order(old.severity)
        ELSE IF newAvg # oldAvg THEN newAvg > oldAvg
        ELSE IF new.window_size # old.window_size
             THEN new.window_size > old.window_size
        ELSE new.x0 < old.x0

\* what one window of a line contributes (the body of the two inner loops of
\* _stitch_ocr_spans): a sequence of zero or one candidate record
stitch_window(page, window, cfg, threshold) ==
    LET \* any("b" in span.text.lower() for span in window)
        has_b == \E i \in 1..Len(window) :
                    \E j \in 1..Len(window[i].text) : window[i].text[j] \in {"b", "B"}
        Build(candidate_raw, digits_used, passes_primary, b6_used, avg_conf, min_conf, bbox) ==
            LET low_conf == \/ avg_conf[1] < threshold * avg_conf[2]
                            \/ min_conf < cfg.min_token_conf_threshold
                severity == IF passes_primary THEN "hit"
                            ELSE IF low_conf THEN "suspicion" ELSE "none"
                validators ==
                    <<"regex", "stitch">>
                    \o (IF passes_primary THEN <<"luhn">> ELSE <<>>)
                    \o (IF passes_primary /\ b6_used THEN <<"confusable:b->6">> ELSE <<>>)
                    \o (IF ~passes_primary /\ low_conf THEN <<"near_pan">> ELSE <<>>)
            IN  IF severity = "none" THEN <<>>
                ELSE <<[detection |-> DetectionResult("card_pan", _mask(digits_used),
                                                      strip(candidate_raw), bbox, page,
                                                      "ocr", validators, severity),
                        avg_conf |-> avg_conf,
                        window_size |-> Len(window),
                        x0 |-> bbox[1],
                        severity |-> severity,
                        normalized |-> digits_used,
                        page |-> page,
                        min_conf |-> min_conf]>>
        Retry(candidate_raw, digits_primary, digits_b6, primary_ok, b6_used) ==
            Build(candidate_raw, IF b6_used THEN digits_b6 ELSE digits_primary,
                  primary_ok \/ b6_used, b6_used, _average_conf(window),
                  MinConf(window), _window_bbox(window))
        Check(candidate_raw, digits_primary, digits_b6, primary_ok) ==
            IF ~(13 <= Len(digits_primary) /\ Len(digits_primary) <= 19) THEN <<>>
            ELSE Retry(candidate_raw, digits_primary, digits_b6, primary_ok,
                       /\ ~primary_ok
                       /\ cfg.allow_lowercase_b_to_6
                       /\ has_b
                       /\ 13 <= Len(digits_b6) /\ Len(digits_b6) <= 19
                       /\ _luhn(digits_b6))
        Normalize(candidate_raw, digits_primary) ==
            Check(candidate_raw, digits_primary,
                  _normalize_stitched_candidate(candidate_raw, cfg, TRUE),
                  _luhn(digits_primary))
        Joined(candidate_raw) ==
            Normalize(candidate_raw,
                      _normalize_stitched_candidate(candidate_raw, cfg, FALSE))
    IN  IF ~(\A i \in 1..Len(window) : _is_digitish(window[i].text, cfg)) THEN <<>>
        ELSE IF ~_gaps_within_limits(window, cfg) THEN <<>>
        ELSE Joined(JoinSpace([i \in 1..Len(window) |-> window[i].text]))

\* the candidates of one line, in the order the loops over size and start
\* evaluate its windows
line_candidates(page, line, cfg, threshold, window_min, window_max) ==
    LET Key(s) == <<s.bbox[1], 0>>
        Windows(ordered, length, max_window) ==
            IF length < window_min THEN <<>>
            ELSE Concat([j \in 1..(max_window - window_min + 1) |->
                     LET size == window_min + j - 1
                     IN  Concat([start \in 1..(length - size + 1) |->
                             stitch_window(page, SubSeq(ordered, start, start + size - 1),
                                           cfg, threshold)])])
    IN  Windows(SortedBy(line, Key), Len(line),
                IF window_max < Len(line) THEN window_max ELSE Len(line))

RECURSIVE MergeCandidates(_, _)
\* candidates[key] = meta when there is none under the key or meta is better;
\* a replaced entry keeps its place in the dictionary
MergeCandidates(metas, candidates) ==
    IF metas = <<>> THEN candidates
    ELSE LET meta == Head(metas)
             same == {i \in 1..Len(candidates) :
                         /\ candidates[i].page = meta.page
                         /\ candidates[i].normalized = meta.normalized}
             merged == IF same = {} THEN Append(candidates, meta)
                       ELSE LET i == CHOOSE i \in same : TRUE
                            IN  IF _is_better_candidate(meta, candidates[i])
                                THEN [candidates EXCEPT ![i] = meta]
                                ELSE candidates
         IN  MergeCandidates(Tail(metas), merged)

RECURSIVE FirstSeenPages(_, _)
\* the keys of grouped, in insertion order
FirstSeenPages(spans, seen) ==
    IF spans = <<>> THEN seen
    ELSE FirstSeenPages(Tail(spans),
                        IF \E i \in 1..Len(seen) : seen[i] = Head(spans).page
                        THEN seen ELSE Append(seen, Head(spans).page))

\* the candidate records of _stitch_ocr_spans in the order its loops over
\* pages, lines, window sizes and window starts build them
stitch_candidates(spans, cfg, threshold) ==
    LET IsOcr(s) == LowerSource(s.source) = "ocr"
        ocr_spans == SelectSeq(spans, IsOcr)
        window_min == IF cfg.stitch_window_min > 2 THEN cfg.stitch_window_min ELSE 2
        window_max == IF cfg.stitch_window_max > window_min
                      THEN cfg.stitch_window_max ELSE window_min
        LineCandidates(page, lines) ==
            Concat([l \in 1..Len(lines) |->
                       line_candidates(page, lines[l], cfg, threshold,
                                       window_min, window_max)])
        PageCandidates(page) ==
            LET OnPage(s) == s.page = page
            IN  LineCandidates(page, _group_lines(SelectSeq(ocr_spans, OnPage),
                                                  cfg.line_y_tol_px))
        PagesCandidates(pages) ==
            Concat([p \in 1..Len(pages) |-> PageCandidates(pages[p])])
    IN  PagesCandidates(FirstSeenPages(ocr_spans, <<>>))

_stitch_ocr_spans(spans, cfg, threshold) ==
    LET Detections(candidates) ==
            [i \in 1..Len(candidates) |-> candidates[i].detection]
    IN  Detections(MergeCandidates(stitch_candidates(spans, cfg, threshold), <<>>))

find_card_pans(spans, cfg) ==
    LET threshold == IF cfg.ocr_conf_suspicion_threshold < 0 THEN 0
                     ELSE IF cfg.ocr_conf_suspicion_threshold > 100 THEN 100
                     ELSE cfg.ocr_conf_suspicion_threshold
    IN  Concat([i \in 1..Len(spans) |-> single_span_detections(spans[i], cfg, threshold)])
        \o _stitch_ocr_spans(spans, cfg, threshold)

\* ------------------------------------------------------------------------
\* find_pan_candidates_from_roi_text
\* ------------------------------------------------------------------------

\* conf_stats is <<>> for None or an empty dict and <<c>> for {"avg_conf": c}
find_pan_candidates_from_roi_text(text, conf_stats, bbox_union, page) ==
    LET conf_note == IF conf_stats = <<>> THEN 0 ELSE conf_stats[1]
        Emit(normalized, passes_luhn) ==
            LET low == conf_note < 50 /\ passes_luhn
                validators == <<"regex", "roi">>
                              \o (IF passes_luhn THEN <<"luhn">> ELSE <<>>)
                              \o (IF low THEN <<"low_conf">> ELSE <<>>)
                severity == IF passes_luhn /\ ~low THEN "hit" ELSE "suspicion"
            IN  IF ~(13 <= Len(normalized) /\ Len(normalized) <= 19) THEN <<>>
                ELSE <<DetectionResult("card_pan", _mask(normalized), normalized,
                                       bbox_union, page, "roi_ocr", validators,
                                       severity)>>
        Candidate(normalized) == Emit(normalized, _luhn(normalized))
        Each(candidates) ==
            Concat([i \in 1..Len(candidates) |->
                       Candidate(_normalize_candidate(candidates[i], TRUE))])
        Pick(cleaned, match, digits) ==
            IF match # <<>> THEN <<SubSeq(cleaned, match[1], match[3] - 1)>>
            ELSE IF 13 <= Len(digits) /\ Len(digits) <= 19 THEN <<digits>>
            ELSE <<>>
        Cleaned(cleaned) ==
            Each(Pick(cleaned, PAN_RE_search(cleaned), DigitsOnly(cleaned)))
    IN  IF text = <<>> THEN <<>> ELSE Cleaned(strip(text))

\* ------------------------------------------------------------------------
\* Bounded inputs
\* ------------------------------------------------------------------------

\* the longest extraction, in spans
MaxSpans == 2

Quad == <<"4", "2", "4", "2">>

QuadOff == <<"4", "2", "4", "3">>

\* "4242 4242 4242 4242": sixteen digits that pass the checksum
PanValid == Quad \o <<" ">> \o Quad \o <<" ">> \o Quad \o <<" ">> \o Quad

\* "4242 4242 4242 4243": sixteen digits that fail it
PanInvalid == Quad \o <<" ">> \o Quad \o <<" ">> \o Quad \o <<" ">> \o QuadOff

\* "Card xxxxxx": text that holds no digits
Filler == <<"C", "a", "r", "d", " ", "x", "x", "x", "x", "x", "x">>

\* the token texts an extraction is made of
TokenTexts ==
    [valid       |-> PanValid,
     invalid     |-> PanInvalid,
     half        |-> Quad \o Quad,
     half_off    |-> Quad \o QuadOff,
     half_star   |-> Quad \o Quad \o <<"*">>,
     tail_star   |-> PanValid \o <<" ", "*">>,
     inner_star  |-> Quad \o <<" ">> \o Quad \o <<"*">> \o Quad \o <<" ">> \o Quad,
     inner_moji  |-> Quad \o <<" ">> \o Quad \o <<"U+00E2", "U+20AC", "U+00A2">>
                     \o Quad \o <<" ">> \o Quad,
     inner_bullet |-> Quad \o <<" ">> \o Quad \o <<"U+2022">> \o Quad \o <<" ">> \o Quad,
     masked      |-> <<"*", "*", "*", "*", " ", "*", "*", "*", "*", " ",
                       "*", "*", "*", "*", " ">> \o Quad,
     b_six       |-> <<"4", "2", "4", "2", "4", "2", "b", "7">>,
     b_eight     |-> <<"4", "2", "4", "2", "4", "2", "b", "3">>,
     full_b_six  |-> Quad \o Quad \o Quad \o <<"4", "2", "b", "7">>,
     full_b_eight |-> Quad \o Quad \o Quad \o <<"4", "2", "b", "3">>,
     lone_z      |-> Quad \o <<" ">> \o Quad \o <<" ">> \o Quad
                     \o <<" ", "4", " ", "Z", " ", "4", "2">>,
     filler      |-> Filler]

\* a 15-digit number that passes the Luhn check: 3782 8224 6310 005
PanFifteen == <<"3", "7", "8", "2", "8", "2", "2", "4", "6", "3", "1", "0", "0", "0", "5">>

\* a 16-digit number that fails the Luhn check by the carry of its doubled
\* first digit: 5242 4242 4242 4240
PanCarry == <<"5", "2", "4", "2">> \o Quad \o Quad \o <<"4", "2", "4", "0">>

\* the second half of a number whose next to last digit reads as a lowercase b:
\* 4242 4242 4242 42b7 passes the Luhn check with b as 6,
\* 4242 4242 4242 42b3 with b as 8

\* one extracted token: its text, where it came from, its OCR confidence and
\* the text row it sits on
Token(name, source, ocr_conf, row) ==
    [text |-> TokenTexts[name], source |-> source, ocr_conf |-> ocr_conf, row |-> row]

TokenLibrary ==
    {Token("valid", "text", NoConf, 1), Token("valid", "ocr", <<40>>, 1),
     Token("invalid", "text", NoConf, 1), Token("invalid", "ocr", <<40>>, 1),
     Token("invalid", "ocr", <<95>>, 1),
     Token("half", "ocr", <<95>>, 1), Token("half", "ocr", <<95>>, 2),
     Token("half_off", "ocr", <<40>>, 1),
     Token("half_star", "ocr", <<95>>, 1),
     Token("tail_star", "text", NoConf, 1),
     Token("inner_star", "text", NoConf, 1),
     Token("inner_moji", "text", NoConf, 1),
     Token("inner_bullet", "text", NoConf, 1),
     Token("masked", "text", NoConf, 1),
     Token("filler", "text", NoConf, 1)}

\* the tokens find_card_pans is applied to on its own: those of the library,
\* a half read with middling confidence, a failing number without a
\* confidence, the halves and the whole numbers with a lowercase b, and
\* "4242 4242 4242 4 Z 42", a number with a letter standing alone in it
PanTokenLibrary ==
    TokenLibrary
    \cup {Token("half_off", "ocr", <<58>>, 1), Token("invalid", "ocr", NoConf, 1),
          Token("b_six", "ocr", <<95>>, 1), Token("b_eight", "ocr", <<95>>, 1),
          Token("full_b_six", "ocr", <<40>>, 1),
          Token("full_b_eight", "text", NoConf, 1),
          Token("lone_z", "text", NoConf, 1)}

\* the i-th token of an extraction sits in the i-th column of its row
TokenBBox(i, row) == <<100 * (i - 1), 100 * (row - 1), 100 * (i - 1) + 90,
                       100 * (row - 1) + 20>>

SpansOf(tokens) ==
    [i \in 1..Len(tokens) |->
        TextSpan(tokens[i].text, TokenBBox(i, tokens[i].row), 0, tokens[i].source,
                 tokens[i].ocr_conf)]

\* what extract_spans can return: up to MaxSpans spans
Documents == {SpansOf(tokens) : tokens \in UNION {[1..k -> TokenLibrary] : k \in 0..MaxSpans}}

PanDocuments ==
    {SpansOf(tokens) : tokens \in UNION {[1..k -> PanTokenLibrary] : k \in 0..MaxSpans}}

\* OCR tokens laid out in text lines: quarters and halves of a number, on the
\* first or the second line.  Their confidences are 1.0 and 0.5, whose sums
\* and means the floating-point arithmetic of _average_conf computes exactly
\* or rounds in order, so that comparing the means as fractions is comparing
\* them as the code does.
LineTokenLibrary ==
    {[text |-> Quad, source |-> "ocr", ocr_conf |-> <<100>>, row |-> 1],
     Token("half", "ocr", <<100>>, 1), Token("half", "ocr", <<50>>, 1),
     Token("half", "ocr", <<100>>, 2), Token("half", "ocr", <<50>>, 2),
     Token("half_off", "ocr", <<50>>, 1)}

\* each token sits in the next free column of its own line
LineSpansOf(tokens) ==
    [i \in 1..Len(tokens) |->
        TextSpan(tokens[i].text,
                 TokenBBox(1 + Cardinality({j \in 1..(i - 1) : tokens[j].row = tokens[i].row}),
                           tokens[i].row),
                 0, tokens[i].source, tokens[i].ocr_conf)]

\* pages of three or four OCR tokens on one or two lines, extracted line by
\* line and left to right
LineDocuments ==
    {LineSpansOf(tokens) :
        tokens \in {t \in UNION {[1..k -> LineTokenLibrary] : k \in 3..4} :
                       \A i \in 1..(Len(t) - 1) : t[i].row <= t[i + 1].row}}

\* the texts and statistics an ROI OCR pass can return
RoiTexts == {<<>>, PanValid, Quad \o Quad \o Quad \o Quad, PanInvalid,
             TokenTexts.inner_star, TokenTexts.masked, PanFifteen, PanCarry}

RoiStats == {<<>>, <<30>>, <<49>>, <<50>>, <<95>>}

RoiBBox == <<8, 35, 92, 65>>

\* ------------------------------------------------------------------------
\* State
\* ------------------------------------------------------------------------

VARIABLES
    pack,                   \* the pack that runs
    pc,                     \* where run_pack stands
    calls,                  \* the collaborators invoked so far, in order
    spans,                  \* pci_lite: the first extraction
    detections,             \* the detections of the report
    re_detections,          \* pci_lite: the detections over the redacted artifact
    contexts,               \* image packs: the loaded pages
    preprocess,             \* image packs: trace["preprocess"]
    redact_boxes,           \* image packs: state.redact_boxes
    suggested_boxes,        \* card_photo: state.suggested_boxes
    card_candidate_present, \* card_photo
    allow_suggestions,      \* card_photo
    force_band_redact,      \* card_photo: the caller's flag
    ocr_roi_bound,          \* image packs: whether the name ocr_roi resolves
    decision,               \* report.decision
    reasons,                \* report.reasons, as their codes
    redacted_pdf,           \* report.artifacts["redacted_pdf"]
    post_redaction,         \* report.trace["post_redaction"]
    action,                 \* report.action
    suggested_redactions,   \* report.suggested_redactions
    input,                  \* the arguments of a primitive under test
    output,                 \* what the primitive returned
    called,                 \* the primitive applied
    luhn_valid,             \* what _luhn returned
    backends,               \* run_ocr_backends: the backends of the mode
    attempts,               \* run_ocr_backends: the attempt log
    results                 \* run_ocr_backends: the results

vars == <<pack, pc, calls, spans, detections, re_detections, contexts, preprocess,
          redact_boxes, suggested_boxes, card_candidate_present, allow_suggestions,
          force_band_redact,
          ocr_roi_bound, decision, reasons, redacted_pdf, post_redaction, action,
          suggested_redactions, input, output, called, luhn_valid, backends,
          attempts, results>>

packVars == <<pack, pc, calls, spans, detections, re_detections, contexts, preprocess,
              redact_boxes, suggested_boxes, card_candidate_present,
              allow_suggestions, force_band_redact, ocr_roi_bound, decision, reasons, redacted_pdf,
              post_redaction, action, suggested_redactions>>

ocrVars == <<backends, attempts, results>>

panVars == <<input, output, called, luhn_valid, backends, attempts, results>>

imageVars == <<contexts, preprocess, redact_boxes, suggested_boxes,
               card_candidate_present, allow_suggestions, force_band_redact, ocr_roi_bound,
               suggested_redactions, action>>

None == "None"

\* the path render_redact returns
RedactedPath == "redacted.pdf"

Packs == {"global.pci_lite.v1", "global.card_photo.v1", "global.id_photo.v1"}

\* the state of a run before its first step
PackIdle ==
    /\ pc = "start"
    /\ calls = <<>>
    /\ spans = <<>>
    /\ detections = <<>>
    /\ re_detections = <<>>
    /\ contexts = <<>>
    /\ preprocess = <<>>
    /\ redact_boxes = <<>>
    /\ suggested_boxes = <<>>
    /\ card_candidate_present = FALSE
    /\ allow_suggestions = FALSE
    /\ decision = None
    /\ reasons = <<>>
    /\ redacted_pdf = None
    /\ post_redaction = [unset |-> TRUE]
    /\ action = None
    /\ suggested_redactions = <<>>

OcrIdle ==
    /\ backends = <<>>
    /\ attempts = <<>>
    /\ results = <<>>

PanIdle ==
    /\ input = [kind |-> "none"]
    /\ output = <<>>
    /\ called = None
    /\ luhn_valid = FALSE
    /\ OcrIdle

\* number of times a collaborator was invoked
Invocations(name) == Cardinality({i \in 1..Len(calls) : calls[i] = name})

\* ------------------------------------------------------------------------
\* global.pci_lite.v1
\* ------------------------------------------------------------------------

MIN_CHAR_COUNT == 30

CARD_PAN_CFG == CardPanConfig(TRUE)

RECURSIVE StrippedChars(_)
\* sum(len(span.text.strip()) for span in spans)
StrippedChars(ss) ==
    IF ss = <<>> THEN 0 ELSE Len(strip(Head(ss).text)) + StrippedChars(Tail(ss))

\* the gate as "if not spans": only an extraction without any span is sparse
extraction_empty_without_spans(ss) == ss = <<>>

\* the extraction gate of run_pack
extraction_empty(ss) == StrippedChars(ss) < MIN_CHAR_COUNT

IsSuspicion(det) == det.severity = "suspicion"

IsHit(det) == det.severity = "hit"

\* the filter comparing against a severity no detection carries
suspicions_of_misspelt(dets) ==
    SelectSeq(dets, LAMBDA det : det.severity = "suspect")

\* suspicions = [det for det in detections if det.severity == "suspicion"]
suspicions_of(dets) == SelectSeq(dets, IsSuspicion)

\* hits = [det for det in detections if det.severity == "hit"]
hits_of(dets) == SelectSeq(dets, IsHit)

\* the two tests of run_pack in the other order: hits before suspicions
pci_first_pass_hits_first(dets) ==
    IF hits_of(dets) # <<>> THEN "hits"
    ELSE IF suspicions_of(dets) # <<>> THEN "suspicions"
    ELSE "none"

\* the branch run_pack takes after the first detection pass
pci_first_pass(dets) ==
    IF suspicions_of(dets) # <<>> THEN "suspicions"
    ELSE IF hits_of(dets) # <<>> THEN "hits"
    ELSE "none"

\* the verification counting only hit-severity re-detections
pci_verified_hits_only(re_dets) == hits_of(re_dets) = <<>>

\* the verification with its test inverted
pci_verified_inverted(re_dets) == re_dets # <<>>

\* "if re_detections:" negated: the redacted artifact counts as verified
pci_verified(re_dets) == re_dets = <<>>

\* What re-extraction of the redacted artifact can return.  The renderer and
\* the extractor are collaborators: the page may come back blank, with the
\* boxed tokens gone, unchanged, or with a boxed token re-read by OCR as a
\* low-confidence near-PAN.
ReExtractions(ss, hits) ==
    LET Inside(b, box) == /\ box[1] <= b[1] /\ box[2] <= b[2]
                          /\ b[3] <= box[3] /\ b[4] <= box[4]
        Boxed(span) == \E h \in 1..Len(hits) : Inside(span.bbox, hits[h].bbox)
        Kept(span) == ~Boxed(span)
        residue == [i \in 1..Len(ss) |->
                       IF Boxed(ss[i])
                       THEN TextSpan(PanInvalid, ss[i].bbox, ss[i].page, "ocr", <<40>>)
                       ELSE ss[i]]
    IN  {<<>>, SelectSeq(ss, Kept), ss, residue}

PciExtract ==
    /\ pack = "global.pci_lite.v1"
    /\ pc = "start"
    /\ \E doc \in Documents : spans' = doc
    /\ calls' = Append(calls, "extract_spans")
    /\ pc' = "extracted"
    /\ UNCHANGED <<pack, detections, re_detections, decision, reasons, redacted_pdf,
                   post_redaction>>
    /\ UNCHANGED imageVars
    /\ UNCHANGED panVars

PciGate ==
    /\ pack = "global.pci_lite.v1"
    /\ pc = "extracted"
    /\ IF extraction_empty(spans)
       THEN /\ calls' = calls \o <<"render_highlight", "_write_report">>
            /\ post_redaction' = [hits_remaining |-> 0]
            /\ decision' = "REJECTED"
            /\ reasons' = <<"EXTRACTION_EMPTY">>
            /\ detections' = <<>>
            /\ pc' = "done"
       ELSE /\ detections' = find_card_pans(spans, CARD_PAN_CFG)
            /\ calls' = calls \o <<"find_card_pans", "render_highlight">>
            /\ pc' = "detected"
            /\ UNCHANGED <<post_redaction, decision, reasons>>
    /\ UNCHANGED <<pack, spans, re_detections, redacted_pdf>>
    /\ UNCHANGED imageVars
    /\ UNCHANGED panVars

PciDecide ==
    /\ pack = "global.pci_lite.v1"
    /\ pc = "detected"
    /\ LET branch == pci_first_pass(detections)
       IN  CASE branch = "suspicions" ->
                  /\ post_redaction' = [hits_remaining |-> 0]
                  /\ decision' = "REVIEW"
                  /\ reasons' = <<"PAN_SUSPECT_OCR_LOW_CONF">>
                  /\ calls' = Append(calls, "_write_report")
                  /\ pc' = "done"
                  /\ UNCHANGED redacted_pdf
             [] branch = "hits" ->
                  /\ calls' = Append(calls, "render_redact")
                  /\ redacted_pdf' = RedactedPath
                  /\ pc' = "redacted"
                  /\ UNCHANGED <<post_redaction, decision, reasons>>
             [] branch = "none" ->
                  /\ post_redaction' = [hits_remaining |-> 0]
                  /\ decision' = "CONFIRMED"
                  /\ reasons' = <<>>
                  /\ calls' = Append(calls, "_write_report")
                  /\ pc' = "done"
                  /\ UNCHANGED redacted_pdf
    /\ UNCHANGED <<pack, spans, detections, re_detections>>
    /\ UNCHANGED imageVars
    /\ UNCHANGED panVars

PciVerify ==
    /\ pack = "global.pci_lite.v1"
    /\ pc = "redacted"
    /\ LET Verified(re_spans, re_dets) ==
               /\ re_detections' = re_dets
               /\ post_redaction' =
                     [span_count |-> Len(re_spans),
                      hits_remaining |-> Len(hits_of(re_dets)),
                      suspicions_remaining |-> Len(suspicions_of(re_dets))]
               /\ IF pci_verified(re_dets)
                  THEN decision' = "CONFIRMED" /\ reasons' = <<>>
                  ELSE decision' = "REVIEW"
                       /\ reasons' = <<"PAN_REMAINS_AFTER_REDACTION">>
       IN  \E re_spans \in ReExtractions(spans, hits_of(detections)) :
              Verified(re_spans, find_card_pans(re_spans, CARD_PAN_CFG))
    /\ calls' = calls \o <<"extract_spans", "find_card_pans", "_write_report">>
    /\ pc' = "done"
    /\ UNCHANGED <<pack, spans, detections, redacted_pdf>>
    /\ UNCHANGED imageVars
    /\ UNCHANGED panVars

\* ------------------------------------------------------------------------
\* Image packs: inputs and primitives
\* ------------------------------------------------------------------------

\* the most pages a photo input has
MaxPages == 1

RECURSIVE ToInt(_)
\* int(digits)
ToInt(digits) ==
    IF digits = <<>> THEN 0
    ELSE 10 * ToInt(SubSeq(digits, 1, Len(digits) - 1)) + DigitValue(digits[Len(digits)])

DigitChar(n) ==
    CASE n = 0 -> "0" [] n = 1 -> "1" [] n = 2 -> "2" [] n = 3 -> "3" [] n = 4 -> "4"
      [] n = 5 -> "5" [] n = 6 -> "6" [] n = 7 -> "7" [] n = 8 -> "8" [] n = 9 -> "9"

\* datetime.utcnow().year
NowYear == 2026

\* parse_expiry_from_text: <<>> for None, else <<detection>>.  EXPIRY_RE is
\* (0[1-9]|1[0-2])[\-/](\d{2,4}); datetime(year, month, 1) accepts every year
\* the pattern can give, so the ValueError branch is never taken.
parse_expiry_from_text(text) ==
    LET IsMonth(s) == \/ text[s] = "0" /\ text[s + 1] \in Digit \ {"0"}
                      \/ text[s] = "1" /\ text[s + 1] \in {"0", "1", "2"}
        MatchAt(s) == /\ s + 4 <= Len(text)
                      /\ IsMonth(s)
                      /\ text[s + 2] \in {"-", "/"}
                      /\ isdigit(text[s + 3]) /\ isdigit(text[s + 4])
        Parsed(s, n, year, expired) ==
            <<[text |-> <<text[s], text[s + 1], "/",
                          DigitChar((year % 100) \div 10), DigitChar(year % 10)>>,
               raw |-> SubSeq(text, s, s + 2 + n),
               severity |-> IF expired THEN "suspicion" ELSE "hit",
               validators |-> IF expired THEN <<"format_mm_yy", "expired">>
                              ELSE <<"format_mm_yy">>]>>
        WithYear(s, n, year) == Parsed(s, n, year, year < NowYear - 1)
        WithRaw(s, n, year_raw) ==
            WithYear(s, n, IF year_raw < 100 THEN year_raw + 2000 ELSE year_raw)
        WithLen(s, n) == WithRaw(s, n, ToInt(SubSeq(text, s + 3, s + 2 + n)))
        At(s) == WithLen(s, SetMax({k \in 2..4 :
                                       /\ s + 2 + k <= Len(text)
                                       /\ \A j \in 1..k : isdigit(text[s + 2 + j])}))
        First(starts) == IF starts = {} THEN <<>> ELSE At(SetMin(starts))
    IN  First({s \in 1..Len(text) : MatchAt(s)})

\* card_expiry.build_detection and id_mrz.build_detection
build_detection(field, detection, bbox, page) ==
    DetectionResult(field, detection.text, detection.raw, bbox, page, "roi_ocr",
                    detection.validators, detection.severity)

RECURSIVE splitlines(_)
\* text.splitlines(), as a sequence of lines
splitlines(text) ==
    IF text = <<>> THEN <<>>
    ELSE LET breaks == {i \in 1..Len(text) : text[i] = "\n"}
         IN  IF breaks = {} THEN <<text>>
             ELSE LET b == SetMin(breaks)
                  IN  <<SubSeq(text, 1, b - 1)>> \o splitlines(SubSeq(text, b + 1, Len(text)))

\* ch.upper() over the modelled alphabet
upper(ch) ==
    CASE ch = "o" -> "O" [] ch = "i" -> "I" [] ch = "l" -> "L" [] ch = "s" -> "S"
      [] ch = "b" -> "B" [] ch = "z" -> "Z" [] ch = "a" -> "A" [] ch = "r" -> "R"
      [] ch = "d" -> "D" [] ch = "x" -> "X" [] ch = "c" -> "C" [] OTHER -> ch

\* [A-Z0-9] over the modelled alphabet
UpperAlnum == Digit \cup {"O", "I", "L", "S", "B", "Z", "C", "A", "R", "D", "X"}

NotSpace(ch) == ch # " "

\* MRZ_LINE_RE: ^[A-Z0-9<]{30,44}$
MRZ_LINE_RE_match(line) ==
    /\ 30 <= Len(line) /\ Len(line) <= 44
    /\ \A i \in 1..Len(line) : line[i] \in UpperAlnum \cup {"<"}

\* "\n".join(lines)
RECURSIVE JoinLines(_)
JoinLines(lines) ==
    IF lines = <<>> THEN <<>>
    ELSE IF Len(lines) = 1 THEN Head(lines)
    ELSE Head(lines) \o <<"\n">> \o JoinLines(Tail(lines))

\* detect_mrz: <<>> for None, else <<detection>>
detect_mrz(text) ==
    LET NonBlank(line) == strip(line) # <<>>
        Bare(line) == SelectSeq(strip(line), NotSpace)
        Upper(line) == [j \in 1..Len(line) |-> upper(line[j])]
        Lines(kept) == [i \in 1..Len(kept) |-> Upper(Bare(kept[i]))]
        Found(block) == <<[text |-> block, raw |-> block, severity |-> "hit",
                           validators |-> <<"mrz_pattern">>]>>
        Matched(matched) ==
            IF Len(matched) < 2 THEN <<>>
            ELSE Found(JoinLines(SubSeq(matched, 1,
                                        IF Len(matched) < 3 THEN Len(matched) ELSE 3)))
    IN  IF text = <<>> THEN <<>>
        ELSE Matched(SelectSeq(Lines(SelectSeq(splitlines(text), NonBlank)),
                               MRZ_LINE_RE_match))

\* detect_id_number: <<>> for None, else <<value>>.  ID_RE is [A-Z0-9]{6,}.
detect_id_number(text) ==
    LET Search(bare) ==
            LET RunFrom(s) == SetMax({e \in (s - 1)..Len(bare) :
                                         \A j \in s..e : bare[j] \in UpperAlnum})
                First(starts) == IF starts = {} THEN <<>>
                                 ELSE <<SubSeq(bare, SetMin(starts), RunFrom(SetMin(starts)))>>
            IN  First({s \in 1..Len(bare) : RunFrom(s) - s + 1 >= 6})
    IN  IF text = <<>> THEN <<>> ELSE Search(SelectSeq(text, NotSpace))

\* id_number.build_detection
build_id_detection(field, value, bbox, page) ==
    DetectionResult(field, value, value, bbox, page, "roi_ocr", <<"pattern_alnum">>,
                    "suspicion")

RenderBox(page, bbox, label) == [page |-> page, bbox |-> bbox, label |-> label]

\* where the regions of a page lie (one layout for every page)
ExpiryBBox == <<55, 60, 95, 92>>

VisualBBox == <<10, 30, 90, 70>>

MrzBBox == <<5, 70, 95, 95>>

IdBBox == <<50, 10, 95, 25>>

DobBBox == <<50, 30, 95, 40>>

FaceBBox == <<5, 10, 40, 60>>

\* what preprocess_document_region can report about a page: blur score and
\* whether occlusion is suspected
PageQualities == {<<80, FALSE>>, <<19, FALSE>>, <<10, FALSE>>, <<80, TRUE>>}

\* what the PAN ROI pass can read on a page: text and avg_conf
PagePanOcr == {<<<<>>, 0>>, <<PanValid, 95>>, <<PanValid, 30>>, <<PanInvalid, 95>>}

\* what the expiry ROI pass can read: "", "12/30", "12/20"
PageExpiryOcr == {<<>>, <<"1", "2", "/", "3", "0">>, <<"1", "2", "/", "2", "0">>}

CardPages ==
    {[pan_text |-> pan[1], pan_stats |-> <<pan[2]>>, expiry_text |-> expiry,
      visual |-> visual, blur_score |-> quality[1], occlusion_suspected |-> quality[2]] :
        pan \in PagePanOcr, expiry \in PageExpiryOcr, visual \in BOOLEAN,
        quality \in PageQualities}

MrzLine == [i \in 1..30 |-> IF i <= 4 THEN Quad[i] ELSE "<"]

\* what the MRZ ROI pass can read: nothing, one MRZ line, two MRZ lines
PageMrzOcr == {<<>>, MrzLine, MrzLine \o <<"\n">> \o MrzLine}

\* what the ID ROI pass can read: nothing, "Z42 42", "Z424 2424"
PageIdOcr == {<<>>, <<"Z">> \o <<"4", "2", " ">> \o <<"4", "2">>,
              <<"Z">> \o <<"4", "2", "4", " ">> \o Quad}

IdPages ==
    {[mrz_text |-> mrz, id_text |-> id, dob |-> dob, face |-> face,
      blur_score |-> quality[1], occlusion_suspected |-> quality[2]] :
        mrz \in PageMrzOcr, id \in PageIdOcr, dob \in BOOLEAN, face \in BOOLEAN,
        quality \in PageQualities}

SeqsUpTo(S, n) == UNION {[1..k -> S] : k \in 0..n}

\* ------------------------------------------------------------------------
\* global.card_photo.v1
\* ------------------------------------------------------------------------

\* PolicyConfig.blur_max
blur_max == 20

\* what one page adds to state.detections: the visual suspicion, the PAN
\* candidates of the ROI text, the expiry
card_page_detections(ctx, page_idx) ==
    LET Expiry(expiry) ==
            IF expiry # <<>>
            THEN <<build_detection("card_expiry", expiry[1], ExpiryBBox, page_idx)>>
            ELSE <<>>
    IN  (IF ctx.visual
         THEN <<DetectionResult("card_pan", "PAN_SUSPECT_VISUAL", "PAN_SUSPECT_VISUAL",
                                VisualBBox, page_idx, "visual",
                                <<"PAN_SUSPECT_VISUAL">>, "suspicion")>>
         ELSE <<>>)
        \o find_pan_candidates_from_roi_text(ctx.pan_text, ctx.pan_stats, RoiBBox,
                                             page_idx)
        \o Expiry(parse_expiry_from_text(ctx.expiry_text))

\* the boxes a page's detections add to state.redact_boxes
card_page_redact_boxes(dets) ==
    LET hits == SelectSeq(dets, LAMBDA det : det.field_id = "card_pan" /\ det.severity = "hit"
                                             /\ det.source = "roi_ocr")
    IN  [i \in 1..Len(hits) |-> RenderBox(hits[i].page, hits[i].bbox, "PAN")]

\* _decide of the card pack with the id pack's ending: REJECTED when no reason
\* was collected
card_decide_rejects_by_default(dets, prep, candidate_present) ==
    LET Is(det, field) == det.field_id = field
        pan_hits == SelectSeq(dets, LAMBDA det : Is(det, "card_pan") /\ det.severity = "hit"
                                                 /\ det.source # "visual")
        pan_suspects == SelectSeq(dets, LAMBDA det : Is(det, "card_pan")
                                                     /\ det.severity = "suspicion"
                                                     /\ det.source # "visual")
        visual_pan == SelectSeq(dets, LAMBDA det : Is(det, "card_pan") /\ det.source = "visual")
        expiry_hits == SelectSeq(dets, LAMBDA det : Is(det, "card_expiry"))
        occlusion_flags == SelectSeq(prep, LAMBDA entry : entry.occlusion_suspected)
        blur_low == \E i \in 1..Len(prep) : prep[i].blur_score < blur_max
        ocr_pan_present == \E i \in 1..Len(dets) :
                              Is(dets[i], "card_pan") /\ dets[i].source = "roi_ocr"
        rs == (IF visual_pan # <<>> /\ ~ocr_pan_present THEN <<"PAN_SUSPECT_VISUAL">> ELSE <<>>)
              \o (IF pan_suspects # <<>> THEN <<"PAN_SUSPECT">> ELSE <<>>)
              \o (IF expiry_hits # <<>> THEN <<"EXPIRY_ONLY">> ELSE <<>>)
              \o (IF occlusion_flags # <<>> THEN <<"OCCLUSION">> ELSE <<>>)
              \o (IF blur_low THEN <<"QUALITY_LOW">> ELSE <<>>)
    IN  IF pan_hits # <<>> /\ candidate_present THEN <<"CONFIRMED", <<"PAN_CONFIRMED">>>>
        ELSE IF rs # <<>> THEN <<"REVIEW", rs>>
        ELSE <<"REJECTED", <<"QUALITY_LOW">>>>

\* _decide of the card pack: <<decision, reasons>>
card_decide(dets, prep, candidate_present) ==
    LET Is(det, field) == det.field_id = field
        pan_hits == SelectSeq(dets, LAMBDA det : Is(det, "card_pan") /\ det.severity = "hit"
                                                 /\ det.source # "visual")
        pan_suspects == SelectSeq(dets, LAMBDA det : Is(det, "card_pan")
                                                     /\ det.severity = "suspicion"
                                                     /\ det.source # "visual")
        visual_pan == SelectSeq(dets, LAMBDA det : Is(det, "card_pan") /\ det.source = "visual")
        expiry_hits == SelectSeq(dets, LAMBDA det : Is(det, "card_expiry"))
        occlusion_flags == SelectSeq(prep, LAMBDA entry : entry.occlusion_suspected)
        blur_low == \E i \in 1..Len(prep) : prep[i].blur_score < blur_max
        ocr_pan_present == \E i \in 1..Len(dets) :
                              Is(dets[i], "card_pan") /\ dets[i].source = "roi_ocr"
        rs == (IF visual_pan # <<>> /\ ~ocr_pan_present THEN <<"PAN_SUSPECT_VISUAL">> ELSE <<>>)
              \o (IF pan_suspects # <<>> THEN <<"PAN_SUSPECT">> ELSE <<>>)
              \o (IF expiry_hits # <<>> THEN <<"EXPIRY_ONLY">> ELSE <<>>)
              \o (IF occlusion_flags # <<>> THEN <<"OCCLUSION">> ELSE <<>>)
              \o (IF blur_low THEN <<"QUALITY_LOW">> ELSE <<>>)
    IN  IF pan_hits # <<>> /\ candidate_present THEN <<"CONFIRMED", <<"PAN_CONFIRMED">>>>
        ELSE IF ~candidate_present /\ blur_low /\ rs = <<>>
             THEN <<"REJECTED", <<"QUALITY_LOW">>>>
        ELSE IF rs # <<>> THEN <<"REVIEW", rs>>
        ELSE <<"REVIEW", <<"QUALITY_LOW">>>>

\* suggestions allowed for any visual detection of a REVIEW run, with or
\* without an OCR reading of the PAN
_allow_suggestions_any_visual(dets, dec) ==
    /\ dec = "REVIEW"
    /\ \E i \in 1..Len(dets) : dets[i].field_id = "card_pan" /\ dets[i].source = "visual"

_allow_suggestions(dets, dec) ==
    LET visual_detected == \E i \in 1..Len(dets) :
                              dets[i].field_id = "card_pan" /\ dets[i].source = "visual"
        ocr_pan_present == \E i \in 1..Len(dets) :
                              dets[i].field_id = "card_pan" /\ dets[i].source = "roi_ocr"
    IN  dec = "REVIEW" /\ visual_detected /\ ~ocr_pan_present

\* what re-reading a redacted box can return: text and avg_conf
CardReOcr == {<<<<>>, 0>>, <<PanValid, 95>>, <<PanValid, 30>>}

\* _verify_redaction of the card pack, given what ocr_roi reads in each box
card_verify_redaction(boxes, reads) ==
    LET AnyHit(found) == \E d \in 1..Len(found) : found[d].severity = "hit"
        StillHit(i) ==
            AnyHit(find_pan_candidates_from_roi_text(reads[i][1], <<reads[i][2]>>,
                                                     boxes[i].bbox, boxes[i].page))
    IN  [checked |-> Len(boxes),
         hits_remaining |-> Cardinality({i \in 1..Len(boxes) : StillHit(i)})]

\* a run that answers a failed verification by going back to the redaction
\* step with its decision unchanged
card_after_verify_retry(post, dec, rs, path) ==
    IF post.hits_remaining > 0
    THEN [decision |-> dec, reasons |-> rs, redacted_pdf |-> path, pc |-> "decided"]
    ELSE [decision |-> dec, reasons |-> rs, redacted_pdf |-> path, pc |-> "report"]

\* what run_pack makes of the verification result
card_after_verify(post, dec, rs, path) ==
    IF post.hits_remaining > 0
    THEN [decision |-> "REVIEW", reasons |-> <<"PAN_REMAINS">>, redacted_pdf |-> None,
          pc |-> "report"]
    ELSE [decision |-> dec, reasons |-> rs, redacted_pdf |-> path, pc |-> "report"]

CardLoad ==
    /\ pack = "global.card_photo.v1"
    /\ pc = "start"
    /\ \E pages \in SeqsUpTo(CardPages, MaxPages) : contexts' = pages
    /\ calls' = Append(calls, "load_page_contexts")
    /\ pc' = "pages"
    /\ UNCHANGED <<pack, spans, detections, re_detections, preprocess, redact_boxes,
                   suggested_boxes, card_candidate_present, allow_suggestions,
                   force_band_redact, ocr_roi_bound, decision, reasons, redacted_pdf,
                   post_redaction, action, suggested_redactions>>
    /\ UNCHANGED panVars

\* one iteration of "for ctx in contexts"
CardPage ==
    /\ pack = "global.card_photo.v1"
    /\ pc = "pages"
    /\ Len(preprocess) < Len(contexts)
    /\ LET page_idx == Len(preprocess)
           ctx == contexts[page_idx + 1]
           Detected(found) ==
               /\ detections' = detections \o found
               /\ redact_boxes' = redact_boxes \o card_page_redact_boxes(found)
       IN  /\ card_candidate_present' = TRUE
           /\ preprocess' = Append(preprocess,
                                   [page |-> page_idx, blur_score |-> ctx.blur_score,
                                    occlusion_suspected |-> ctx.occlusion_suspected])
           /\ suggested_boxes' = IF ctx.visual
                                 THEN Append(suggested_boxes,
                                             RenderBox(page_idx, VisualBBox, "PAN VISUAL"))
                                 ELSE suggested_boxes
           /\ Detected(card_page_detections(ctx, page_idx))
    /\ UNCHANGED <<pack, pc, calls, spans, re_detections, contexts, allow_suggestions,
                   force_band_redact, ocr_roi_bound, decision, reasons, redacted_pdf,
                   post_redaction, action, suggested_redactions>>
    /\ UNCHANGED panVars

CardDecide ==
    /\ pack = "global.card_photo.v1"
    /\ pc = "pages"
    /\ Len(preprocess) = Len(contexts)
    /\ LET Decided(decided) ==
               /\ decision' = decided[1]
               /\ reasons' = decided[2]
               /\ allow_suggestions' = _allow_suggestions(detections, decided[1])
       IN  Decided(card_decide(detections, preprocess, card_candidate_present))
    /\ calls' = Append(calls, "render_highlight_from_boxes")
    /\ pc' = "decided"
    /\ UNCHANGED <<pack, spans, detections, re_detections, contexts, preprocess,
                   redact_boxes, suggested_boxes, card_candidate_present,
                   force_band_redact, ocr_roi_bound, redacted_pdf, post_redaction,
                   action, suggested_redactions>>
    /\ UNCHANGED panVars

\* the forced branch taken whenever suggestions are allowed, flag or no flag
forced_redact_applies_unflagged(dec, force, allow, suggested) ==
    dec = "REVIEW" /\ allow /\ suggested # <<>>

\* the guard of run_pack's forced redaction over the suggested boxes
forced_redact_applies(dec, force, allow, suggested) ==
    dec = "REVIEW" /\ force /\ allow /\ suggested # <<>>

CardRedact ==
    /\ pack = "global.card_photo.v1"
    /\ pc = "decided"
    /\ IF decision = "CONFIRMED" /\ redact_boxes # <<>>
       THEN /\ calls' = Append(calls, "render_redact_from_boxes")
            /\ redacted_pdf' = RedactedPath
            /\ pc' = "verify"
            /\ UNCHANGED <<post_redaction, action>>
       ELSE IF forced_redact_applies(decision, force_band_redact, allow_suggestions,
                                     suggested_boxes)
       THEN /\ calls' = Append(calls, "render_redact_from_boxes")
            /\ redacted_pdf' = RedactedPath
            /\ action' = "FORCED_REDACT_REVIEW"
            /\ post_redaction' = [forced |-> TRUE, boxes |-> Len(suggested_boxes)]
            /\ pc' = "report"
       ELSE /\ post_redaction' = [checked |-> 0, hits_remaining |-> 0]
            /\ pc' = "report"
            /\ UNCHANGED <<calls, redacted_pdf, action>>
    /\ UNCHANGED <<pack, spans, detections, re_detections, contexts, preprocess,
                   redact_boxes, suggested_boxes, card_candidate_present,
                   allow_suggestions, force_band_redact, ocr_roi_bound, decision,
                   reasons, suggested_redactions>>
    /\ UNCHANGED panVars

\* _verify_redaction and what follows it.  The module never imports ocr_roi:
\* unless the name is supplied from outside (ocr_roi_bound), the first box
\* raises NameError and run_pack ends without a report.
CardVerify ==
    /\ pack = "global.card_photo.v1"
    /\ pc = "verify"
    /\ calls' = Append(calls, "_verify_redaction")
    /\ IF ~ocr_roi_bound /\ redact_boxes # <<>>
       THEN /\ pc' = "raised"
            /\ UNCHANGED <<decision, reasons, redacted_pdf, post_redaction>>
       ELSE LET After(after) ==
                    /\ decision' = after.decision
                    /\ reasons' = after.reasons
                    /\ redacted_pdf' = after.redacted_pdf
                    /\ pc' = after.pc
                Verified(post) ==
                    /\ post_redaction' = post
                    /\ After(card_after_verify(post, decision, reasons, redacted_pdf))
            IN  \E reads \in [1..Len(redact_boxes) -> CardReOcr] :
                   Verified(card_verify_redaction(redact_boxes, reads))
    /\ UNCHANGED <<pack, spans, detections, re_detections, contexts, preprocess,
                   redact_boxes, suggested_boxes, card_candidate_present,
                   allow_suggestions, force_band_redact, ocr_roi_bound, action,
                   suggested_redactions>>
    /\ UNCHANGED panVars

\* build_report and write_report
CardReport ==
    /\ pack = "global.card_photo.v1"
    /\ pc = "report"
    /\ suggested_redactions' = IF allow_suggestions /\ decision = "REVIEW"
                               THEN suggested_boxes ELSE <<>>
    /\ calls' = Append(calls, "write_report")
    /\ pc' = "done"
    /\ UNCHANGED <<pack, spans, detections, re_detections, contexts, preprocess,
                   redact_boxes, suggested_boxes, card_candidate_present,
                   allow_suggestions, force_band_redact, ocr_roi_bound, decision,
                   reasons, redacted_pdf, post_redaction, action>>
    /\ UNCHANGED panVars

\* ------------------------------------------------------------------------
\* global.id_photo.v1
\* ------------------------------------------------------------------------

REDACT_FACE == TRUE

\* the blur threshold of the id pack's _decide
id_blur_min == 18

id_page_detections(ctx, page_idx) ==
    LET Mrz(mrz) == IF mrz # <<>>
                    THEN <<build_detection("mrz", mrz[1], MrzBBox, page_idx)>>
                    ELSE <<>>
        Id(id) == IF id # <<>>
                  THEN <<build_id_detection("id_number", id[1], IdBBox, page_idx)>>
                  ELSE <<>>
    IN  Mrz(detect_mrz(ctx.mrz_text)) \o Id(detect_id_number(ctx.id_text))

id_page_redact_boxes(ctx, page_idx) ==
    (IF detect_mrz(ctx.mrz_text) # <<>> THEN <<RenderBox(page_idx, MrzBBox, "MRZ")>>
     ELSE <<>>)
    \o (IF detect_id_number(ctx.id_text) # <<>> THEN <<RenderBox(page_idx, IdBBox, "ID")>>
        ELSE <<>>)
    \o (IF ctx.dob THEN <<RenderBox(page_idx, DobBBox, "DOB")>> ELSE <<>>)
    \o (IF REDACT_FACE /\ ctx.face THEN <<RenderBox(page_idx, FaceBBox, "FACE")>>
        ELSE <<>>)

\* _decide of the id pack: <<decision, reasons>>
id_decide(dets, prep) ==
    LET mrz_hits == SelectSeq(dets, LAMBDA det : det.field_id = "mrz")
        id_suspects == SelectSeq(dets, LAMBDA det : det.field_id = "id_number")
        occlusion == \E i \in 1..Len(prep) : prep[i].occlusion_suspected
        blur_low == \E i \in 1..Len(prep) : prep[i].blur_score < id_blur_min
        rs == (IF id_suspects # <<>> THEN <<"ID_SUSPECT">> ELSE <<>>)
              \o (IF occlusion \/ blur_low THEN <<"QUALITY_LOW">> ELSE <<>>)
              \o (IF occlusion THEN <<"OCCLUSION">> ELSE <<>>)
    IN  IF mrz_hits # <<>> THEN <<"CONFIRMED", <<"MRZ_CONFIRMED">>>>
        ELSE IF rs # <<>> THEN <<"REVIEW", rs>>
        ELSE <<"REJECTED", <<"QUALITY_LOW">>>>

\* what re-reading a redacted box can return
IdReOcr == {<<>>, MrzLine \o <<"\n">> \o MrzLine, <<"Z">> \o Quad \o Quad}

\* the boxes _verify_redaction of the id pack reads
IdChecked(boxes) == {i \in 1..Len(boxes) : boxes[i].label \in {"MRZ", "ID"}}

\* _verify_redaction of the id pack, given what ocr_roi reads in each box it
\* checks
id_verify_redaction(boxes, reads) ==
    LET Still(i) == IF boxes[i].label = "MRZ" THEN detect_mrz(reads[i]) # <<>>
                    ELSE detect_id_number(reads[i]) # <<>>
    IN  [checked |-> Cardinality(IdChecked(boxes)),
         mrz_hits_remaining |-> Cardinality({i \in IdChecked(boxes) : Still(i)})]

\* what run_pack makes of the verification result
id_after_verify(post, dec, rs, path) ==
    IF post.mrz_hits_remaining > 0
    THEN [decision |-> "REVIEW", reasons |-> <<"MRZ_REMAINS">>, redacted_pdf |-> None,
          pc |-> "report"]
    ELSE [decision |-> dec, reasons |-> rs, redacted_pdf |-> path, pc |-> "report"]

IdLoad ==
    /\ pack = "global.id_photo.v1"
    /\ pc = "start"
    /\ \E pages \in SeqsUpTo(IdPages, MaxPages) : contexts' = pages
    /\ calls' = Append(calls, "load_page_contexts")
    /\ pc' = "pages"
    /\ UNCHANGED <<pack, spans, detections, re_detections, preprocess, redact_boxes,
                   suggested_boxes, card_candidate_present, allow_suggestions,
                   force_band_redact, ocr_roi_bound, decision, reasons, redacted_pdf,
                   post_redaction, action, suggested_redactions>>
    /\ UNCHANGED panVars

\* one iteration of "for ctx in contexts"
IdPage ==
    /\ pack = "global.id_photo.v1"
    /\ pc = "pages"
    /\ Len(preprocess) < Len(contexts)
    /\ LET page_idx == Len(preprocess)
           ctx == contexts[page_idx + 1]
       IN  /\ preprocess' = Append(preprocess,
                                   [page |-> page_idx, blur_score |-> ctx.blur_score,
                                    occlusion_suspected |-> ctx.occlusion_suspected])
           /\ detections' = detections \o id_page_detections(ctx, page_idx)
           /\ redact_boxes' = redact_boxes \o id_page_redact_boxes(ctx, page_idx)
    /\ UNCHANGED <<pack, pc, calls, spans, re_detections, contexts, suggested_boxes,
                   card_candidate_present, allow_suggestions, force_band_redact,
                   ocr_roi_bound, decision, reasons, redacted_pdf, post_redaction,
                   action, suggested_redactions>>
    /\ UNCHANGED panVars

IdDecide ==
    /\ pack = "global.id_photo.v1"
    /\ pc = "pages"
    /\ Len(preprocess) = Len(contexts)
    /\ LET Decided(decided) == decision' = decided[1] /\ reasons' = decided[2]
       IN  Decided(id_decide(detections, preprocess))
    /\ calls' = Append(calls, "render_highlight_from_boxes")
    /\ pc' = "decided"
    /\ UNCHANGED <<pack, spans, detections, re_detections, contexts, preprocess,
                   redact_boxes, suggested_boxes, card_candidate_present,
                   allow_suggestions, force_band_redact, ocr_roi_bound, redacted_pdf,
                   post_redaction, action, suggested_redactions>>
    /\ UNCHANGED panVars

IdRedact ==
    /\ pack = "global.id_photo.v1"
    /\ pc = "decided"
    /\ IF decision = "CONFIRMED" /\ redact_boxes # <<>>
       THEN /\ calls' = Append(calls, "render_redact_from_boxes")
            /\ redacted_pdf' = RedactedPath
            /\ pc' = "verify"
            /\ UNCHANGED post_redaction
       ELSE /\ post_redaction' = [checked |-> 0, mrz_hits_remaining |-> 0]
            /\ pc' = "report"
            /\ UNCHANGED <<calls, redacted_pdf>>
    /\ UNCHANGED <<pack, spans, detections, re_detections, contexts, preprocess,
                   redact_boxes, suggested_boxes, card_candidate_present,
                   allow_suggestions, force_band_redact, ocr_roi_bound, decision,
                   reasons, action, suggested_redactions>>
    /\ UNCHANGED panVars

\* _verify_redaction and what follows it.  The module never imports ocr_roi:
\* unless the name is supplied from outside (ocr_roi_bound), the first MRZ or
\* ID box raises NameError and run_pack ends without a report.
IdVerify ==
    /\ pack = "global.id_photo.v1"
    /\ pc = "verify"
    /\ calls' = Append(calls, "_verify_redaction")
    /\ IF ~ocr_roi_bound /\ IdChecked(redact_boxes) # {}
       THEN /\ pc' = "raised"
            /\ UNCHANGED <<decision, reasons, redacted_pdf, post_redaction>>
       ELSE LET After(after) ==
                    /\ decision' = after.decision
                    /\ reasons' = after.reasons
                    /\ redacted_pdf' = after.redacted_pdf
                    /\ pc' = after.pc
                Verified(post) ==
                    /\ post_redaction' = post
                    /\ After(id_after_verify(post, decision, reasons, redacted_pdf))
            IN  \E reads \in [IdChecked(redact_boxes) -> IdReOcr] :
                   Verified(id_verify_redaction(redact_boxes, reads))
    /\ UNCHANGED <<pack, spans, detections, re_detections, contexts, preprocess,
                   redact_boxes, suggested_boxes, card_candidate_present,
                   allow_suggestions, force_band_redact, ocr_roi_bound, action,
                   suggested_redactions>>
    /\ UNCHANGED panVars

\* build_report and write_report
IdReport ==
    /\ pack = "global.id_photo.v1"
    /\ pc = "report"
    /\ calls' = Append(calls, "write_report")
    /\ pc' = "done"
    /\ UNCHANGED <<pack, spans, detections, re_detections, contexts, preprocess,
                   redact_boxes, suggested_boxes, card_candidate_present,
                   allow_suggestions, force_band_redact, ocr_roi_bound, decision,
                   reasons, redacted_pdf, post_redaction, action, suggested_redactions>>
    /\ UNCHANGED panVars

\* ------------------------------------------------------------------------
\* The pack runs
\* ------------------------------------------------------------------------

Init ==
    /\ pack \in Packs
    /\ force_band_redact \in (IF pack = "global.card_photo.v1" THEN BOOLEAN ELSE {FALSE})
    /\ ocr_roi_bound \in (IF pack = "global.pci_lite.v1" THEN {FALSE} ELSE BOOLEAN)
    /\ PackIdle
    /\ PanIdle

Next ==
    \/ PciExtract \/ PciGate \/ PciDecide \/ PciVerify
    \/ CardLoad \/ CardPage \/ CardDecide \/ CardRedact \/ CardVerify \/ CardReport
    \/ IdLoad \/ IdPage \/ IdDecide \/ IdRedact \/ IdVerify \/ IdReport

Spec == Init /\ [][Next]_vars

\* ------------------------------------------------------------------------
\* Properties of the pack runs
\* ------------------------------------------------------------------------

\* the run has written its report
FinalReport == pc = "done"

HasSeverity(dets, severity) == \E i \in 1..Len(dets) : dets[i].severity = severity

HasReason(codes) == \E i \in 1..Len(reasons) : reasons[i] \in codes

\* the renderer that blacks out boxes, under either of its names
RedactionCount ==
    Invocations("render_redact") + Invocations("render_redact_from_boxes")

\* position of the calls a, b, c in that order in the log
CalledInOrder(a, b, c) ==
    \E i, j, k \in 1..Len(calls) :
        i < j /\ j < k /\ calls[i] = a /\ calls[j] = b /\ calls[k] = c

\* the post-redaction verification of this run found a hit
VerificationFoundHit ==
    CASE pack = "global.pci_lite.v1" ->
            Invocations("render_redact") > 0 /\ HasSeverity(re_detections, "hit")
      [] pack = "global.card_photo.v1" ->
            /\ Invocations("_verify_redaction") > 0
            /\ "hits_remaining" \in DOMAIN post_redaction
            /\ post_redaction.hits_remaining > 0
      [] pack = "global.id_photo.v1" ->
            /\ Invocations("_verify_redaction") > 0
            /\ "mrz_hits_remaining" \in DOMAIN post_redaction
            /\ post_redaction.mrz_hits_remaining > 0
      [] OTHER -> FALSE

\* the post-redaction verification of this run did not come back clean
VerificationFailed ==
    \/ VerificationFoundHit
    \/ /\ pack = "global.pci_lite.v1"
       /\ Invocations("render_redact") > 0
       /\ FinalReport
       /\ re_detections # <<>>

\* C1: in every pack, when post-redaction verification still detects a hit,
\* the final report is REVIEW with a "remains after redaction" reason and its
\* artifacts.redacted_pdf is null.
C1_RemainingHitClearsArtifact ==
    FinalReport /\ VerificationFoundHit
        => /\ decision = "REVIEW"
           /\ HasReason({"PAN_REMAINS_AFTER_REDACTION", "PAN_REMAINS", "MRZ_REMAINS"})
           /\ redacted_pdf = None

C3_ConfirmedArtifactIsVerified ==
    (/\ pack = "global.pci_lite.v1"
     /\ FinalReport
     /\ decision = "CONFIRMED"
     /\ redacted_pdf # None)
        => /\ CalledInOrder("render_redact", "extract_spans", "find_card_pans")
           /\ re_detections = <<>>
           /\ "hits_remaining" \in DOMAIN post_redaction
           /\ post_redaction.hits_remaining = 0

\* a pci_lite report that is CONFIRMED and names the redacted artifact
C3_ConfirmedWithArtifact ==
    /\ pack = "global.pci_lite.v1"
    /\ FinalReport
    /\ decision = "CONFIRMED"
    /\ redacted_pdf = RedactedPath

\* C4 as stated: in global.pci_lite.v1, when the first pass has hits and no
\* suspicions and re-detection over the redacted artifact finds no
\* hit-severity detection, the decision is CONFIRMED.
C4_NoRemainingHitConfirms ==
    (/\ pack = "global.pci_lite.v1"
     /\ FinalReport
     /\ HasSeverity(detections, "hit")
     /\ ~HasSeverity(detections, "suspicion")
     /\ ~HasSeverity(re_detections, "hit"))
        => decision = "CONFIRMED"

\* C4 amended: in global.pci_lite.v1, when the first pass has hits and no
\* suspicions, the decision is CONFIRMED when re-detection over the redacted
\* artifact finds no detection of any severity, and REVIEW with
\* PAN_REMAINS_AFTER_REDACTION when it finds any.
C4_NoRemainingDetectionConfirms ==
    (/\ pack = "global.pci_lite.v1"
     /\ FinalReport
     /\ HasSeverity(detections, "hit")
     /\ ~HasSeverity(detections, "suspicion"))
        => IF re_detections = <<>>
           THEN decision = "CONFIRMED" /\ reasons = <<>>
           ELSE decision = "REVIEW" /\ reasons = <<"PAN_REMAINS_AFTER_REDACTION">>

\* a run whose redacted artifact still has text, none of it a detection
C4_CleanReExtraction ==
    /\ pack = "global.pci_lite.v1"
    /\ FinalReport
    /\ HasSeverity(detections, "hit")
    /\ "span_count" \in DOMAIN post_redaction
    /\ post_redaction.span_count > 0
    /\ re_detections = <<>>
    /\ decision = "CONFIRMED"

\* C5: in global.pci_lite.v1, if the detection set contains any suspicion
\* (even alongside hits), the decision is REVIEW with reason
\* PAN_SUSPECT_OCR_LOW_CONF, the redaction renderer is never invoked during
\* the run, and artifacts.redacted_pdf is null.
C5_SuspicionForcesReview ==
    pack = "global.pci_lite.v1" /\ HasSeverity(detections, "suspicion")
        => /\ Invocations("render_redact") = 0
           /\ redacted_pdf = None
           /\ pc \in {"detected", "done"}
           /\ FinalReport => /\ decision = "REVIEW"
                             /\ reasons = <<"PAN_SUSPECT_OCR_LOW_CONF">>

\* a finished pci_lite run whose detections hold a suspicion next to a hit
C5_SuspicionAlongsideHit ==
    /\ pack = "global.pci_lite.v1"
    /\ FinalReport
    /\ HasSeverity(detections, "suspicion")
    /\ HasSeverity(detections, "hit")

\* C6: in global.pci_lite.v1, when the stripped character count of the
\* extracted spans is below MIN_CHAR_COUNT, the run ends REJECTED with the
\* single reason EXTRACTION_EMPTY and an empty detection list, without
\* invoking PAN detection or redaction and without raising.
C6_SparseExtractionRejected ==
    (/\ pack = "global.pci_lite.v1"
     /\ pc # "start"
     /\ StrippedChars(spans) < MIN_CHAR_COUNT)
        => /\ pc \in {"extracted", "done"}
           /\ Invocations("find_card_pans") = 0
           /\ Invocations("render_redact") = 0
           /\ detections = <<>>
           /\ FinalReport => /\ decision = "REJECTED"
                             /\ reasons = <<"EXTRACTION_EMPTY">>

\* a rejected run whose extraction held a card number, in too little text
C6_SparseWithPan ==
    /\ pack = "global.pci_lite.v1"
    /\ FinalReport
    /\ spans # <<>>
    /\ StrippedChars(spans) < MIN_CHAR_COUNT
    /\ \E i \in 1..Len(spans) : spans[i].text = PanValid
    /\ decision = "REJECTED"

\* the run had content to decide on and no quality flag
CleanInput ==
    IF pack = "global.pci_lite.v1"
    THEN StrippedChars(spans) >= MIN_CHAR_COUNT
    ELSE /\ contexts # <<>>
         /\ \A i \in 1..Len(preprocess) :
               /\ ~preprocess[i].occlusion_suspected
               /\ preprocess[i].blur_score >= blur_max
               /\ preprocess[i].blur_score >= id_blur_min

\* C7: for every pack, a run with sufficient content, no quality flag and an
\* empty detection set ends CONFIRMED or REVIEW, never REJECTED.
C7_NoDetectionNeverRejected ==
    FinalReport /\ CleanInput /\ detections = <<>>
        => decision \in {"CONFIRMED", "REVIEW"}

\* C8: in every pack run the redaction renderer is invoked at most once;
\* after a verification failure the run finalizes as REVIEW without invoking
\* redaction or verification a second time.
C8_RedactionAtMostOnce ==
    /\ RedactionCount <= 1
    /\ Invocations("_verify_redaction") <= 1
    /\ Invocations("extract_spans") <= 2
    /\ Invocations("find_card_pans") <= 2
    /\ Invocations("find_card_pans") = 2 => RedactionCount = 1
    /\ FinalReport /\ VerificationFailed => decision = "REVIEW"

\* a card run that ended after its verification still found a card number
C8_CardVerificationFailed ==
    /\ pack = "global.card_photo.v1"
    /\ FinalReport
    /\ VerificationFoundHit
    /\ RedactionCount = 1
    /\ decision = "REVIEW"

\* ------------------------------------------------------------------------
\* The PAN primitives on their own
\* ------------------------------------------------------------------------

\* the lengths a card number can have
PanLengths == 13..19

LuhnFiller == <<"7", "3", "9", "2", "8", "1", "6", "4", "0", "5", "5", "3", "9", "2",
                "7", "1">>

\* digit strings of every length of PanLengths; the first digit and the last
\* two take every value
LuhnInputs ==
    {<<DigitChar(a)>> \o SubSeq(LuhnFiller, 1, n - 3) \o <<DigitChar(b), DigitChar(c)>> :
        n \in PanLengths, a \in 0..9, b \in 0..9, c \in 0..9}

\* suspicion thresholds a caller can set, in hundredths: below, inside and
\* above the interval they are clamped to
Thresholds == {-10, 30, 150}

PanConfigs ==
    {CardPanConfig(b6) : b6 \in BOOLEAN}
    \cup {[CardPanConfig(FALSE) EXCEPT !.ocr_conf_suspicion_threshold = t] :
             t \in Thresholds}

PanInputs ==
    {[kind |-> "spans", spans |-> doc, cfg |-> cfg, text |-> <<>>,
      stats |-> <<>>] : doc \in PanDocuments, cfg \in PanConfigs}
    \cup {[kind |-> "spans", spans |-> doc, cfg |-> CardPanConfig(FALSE), text |-> <<>>,
           stats |-> <<>>] : doc \in LineDocuments}
    \cup {[kind |-> "roi", spans |-> <<>>, cfg |-> CardPanConfig(FALSE), text |-> text,
           stats |-> stats] : text \in RoiTexts, stats \in RoiStats}
    \cup {[kind |-> "luhn", digits |-> digits] : digits \in LuhnInputs}

InitPan ==
    /\ input \in PanInputs
    /\ output = <<>>
    /\ called = None
    /\ luhn_valid = FALSE
    /\ OcrIdle
    /\ pack = None
    /\ force_band_redact = FALSE
    /\ ocr_roi_bound = FALSE
    /\ PackIdle

FindCardPans ==
    /\ called = None
    /\ input.kind = "spans"
    /\ output' = find_card_pans(input.spans, input.cfg)
    /\ called' = "find_card_pans"
    /\ UNCHANGED <<input, luhn_valid>>
    /\ UNCHANGED ocrVars
    /\ UNCHANGED packVars

FindPanCandidatesFromRoiText ==
    /\ called = None
    /\ input.kind = "roi"
    /\ output' = find_pan_candidates_from_roi_text(input.text, input.stats, RoiBBox, 0)
    /\ called' = "find_pan_candidates_from_roi_text"
    /\ UNCHANGED <<input, luhn_valid>>
    /\ UNCHANGED ocrVars
    /\ UNCHANGED packVars

Luhn ==
    /\ called = None
    /\ input.kind = "luhn"
    /\ luhn_valid' = _luhn(input.digits)
    /\ called' = "_luhn"
    /\ UNCHANGED <<input, output>>
    /\ UNCHANGED ocrVars
    /\ UNCHANGED packVars

NextPan == FindCardPans \/ FindPanCandidatesFromRoiText \/ Luhn

SpecPan == InitPan /\ [][NextPan]_vars

\* ------------------------------------------------------------------------
\* The OCR backend registry
\* ------------------------------------------------------------------------

\* the registry key of every backend class, with the name its instances carry
_FACTORIES ==
    [tesseract |-> "tesseract", apple |-> "apple_vision", paddle |-> "paddleocr",
     easy |-> "easyocr"]

_VALID_MODES == {"auto", "combo", "tesseract", "apple", "paddle", "easy"}

\* _sequence_for_mode with the default chain in another order
_sequence_for_mode_paddle_first(mode) ==
    IF mode \in {"tesseract", "apple", "paddle", "easy"} THEN <<mode>>
    ELSE <<"paddle", "apple", "tesseract">>

_sequence_for_mode(mode) ==
    IF mode = "tesseract" THEN <<"tesseract">>
    ELSE IF mode = "apple" THEN <<"apple">>
    ELSE IF mode = "paddle" THEN <<"paddle">>
    ELSE IF mode = "easy" THEN <<"easy">>
    ELSE <<"apple", "paddle", "tesseract">>

\* get_backends_for_mode without the is_available() test
get_backends_for_mode_unfiltered(mode, available) ==
    LET Known(name) == name \in DOMAIN _FACTORIES
        Fallback(chosen) == IF chosen = <<>> THEN <<"tesseract">> ELSE chosen
    IN  Fallback(SelectSeq(_sequence_for_mode(mode), Known))

\* a backend instance is its registry key; available[name] is what
\* is_available() of a fresh instance answers
get_backends_for_mode(mode, available) ==
    LET Kept(name) == name \in DOMAIN _FACTORIES /\ available[name]
        Fallback(chosen) == IF chosen = <<>> THEN <<"tesseract">> ELSE chosen
    IN  Fallback(SelectSeq(_sequence_for_mode(mode), Kept))

\* what a backend's ocr_roi can do: return a result, raise BackendUnavailable,
\* raise another exception
Outcomes == {"result", "BackendUnavailable", "Exception"}

OCRResult(text, avg_conf, engine) ==
    [text |-> text, avg_conf |-> avg_conf, engine |-> engine]

\* what a backend can read off the region: a text with its confidence in
\* hundredths, or nothing
OcrReadings == {[text |-> PanValid, avg_conf |-> 90], [text |-> <<>>, avg_conf |-> 0]}

\* an entry of the attempt log; a key the entry does not have is None
Attempt(engine, success, text_preview, avg_conf, error) ==
    [engine |-> engine, success |-> success, text_preview |-> text_preview,
     avg_conf |-> avg_conf, error |-> error]

\* the try statement of run_ocr_backends with its last except clause left out
try_backend_unavailable_only(backend, outcome, reading) ==
    IF outcome = "result"
    THEN [attempt |-> <<Attempt(_FACTORIES[backend], TRUE,
                                SubSeq(reading.text, 1,
                                       IF Len(reading.text) < 40 THEN Len(reading.text)
                                       ELSE 40),
                                reading.avg_conf, None)>>,
          result |-> <<OCRResult(reading.text, reading.avg_conf, _FACTORIES[backend])>>,
          raised |-> FALSE]
    ELSE IF outcome = "BackendUnavailable"
    THEN [attempt |-> <<Attempt(_FACTORIES[backend], FALSE, None, None, outcome)>>,
          result |-> <<>>, raised |-> FALSE]
    ELSE [attempt |-> <<>>, result |-> <<>>, raised |-> TRUE]

\* the try statement of run_ocr_backends for one backend: the attempt it logs,
\* the result it keeps and whether an exception leaves it
try_backend(backend, outcome, reading) ==
    IF outcome = "result"
    THEN [attempt |-> <<Attempt(_FACTORIES[backend], TRUE,
                                SubSeq(reading.text, 1,
                                       IF Len(reading.text) < 40 THEN Len(reading.text)
                                       ELSE 40),
                                reading.avg_conf, None)>>,
          result |-> <<OCRResult(reading.text, reading.avg_conf, _FACTORIES[backend])>>,
          raised |-> FALSE]
    ELSE IF outcome = "BackendUnavailable"
    THEN [attempt |-> <<Attempt(_FACTORIES[backend], FALSE, None, None, outcome)>>,
          result |-> <<>>, raised |-> FALSE]
    ELSE [attempt |-> <<Attempt(_FACTORIES[backend], FALSE, None, None, outcome)>>,
          result |-> <<>>, raised |-> FALSE]

\* run_ocr_backends returning whatever the loop collected
returned_results_as_collected(collected) == collected

\* the results run_ocr_backends returns
returned_results(collected) ==
    IF collected = <<>> THEN <<OCRResult(<<>>, 0, "none")>> ELSE collected

\* the modes, the installed backends, the behaviour of each backend's
\* ocr_roi and what a successful call reads; Tesseract always answers is_available() with True and raises no
\* BackendUnavailable
OcrInputs ==
    {[kind |-> "ocr", mode |-> mode,
      available |-> [name \in DOMAIN _FACTORIES |->
                        IF name = "tesseract" THEN TRUE ELSE installed[name]],
      outcome |-> outcome, reading |-> reading] :
        mode \in _VALID_MODES, reading \in OcrReadings,
        installed \in [{"apple", "paddle", "easy"} -> BOOLEAN],
        outcome \in {o \in [DOMAIN _FACTORIES -> Outcomes] :
                        o["tesseract"] # "BackendUnavailable"}}

InitOcr ==
    /\ input \in OcrInputs
    /\ output = <<>>
    /\ called = None
    /\ luhn_valid = FALSE
    /\ OcrIdle
    /\ pack = None
    /\ force_band_redact = FALSE
    /\ ocr_roi_bound = FALSE
    /\ PackIdle

\* run_ocr_backends: the call of get_backends_for_mode
GetBackendsForMode ==
    /\ called = None
    /\ input.kind = "ocr"
    /\ backends' = get_backends_for_mode(input.mode, input.available)
    /\ called' = "get_backends_for_mode"
    /\ UNCHANGED <<input, output, luhn_valid, attempts, results>>
    /\ UNCHANGED packVars

\* run_ocr_backends: one pass of the loop
OcrRoi ==
    /\ called = "get_backends_for_mode"
    /\ Len(attempts) < Len(backends)
    /\ LET Pass(tried) ==
               /\ attempts' = attempts \o tried.attempt
               /\ results' = results \o tried.result
               /\ called' = IF tried.raised THEN "raised" ELSE called
       IN  Pass(try_backend(backends[Len(attempts) + 1],
                            input.outcome[backends[Len(attempts) + 1]],
                            input.reading))
    /\ UNCHANGED <<input, output, luhn_valid, backends>>
    /\ UNCHANGED packVars

\* run_ocr_backends: after the loop
RunOcrBackendsReturn ==
    /\ called = "get_backends_for_mode"
    /\ Len(attempts) = Len(backends)
    /\ results' = returned_results(results)
    /\ called' = "run_ocr_backends"
    /\ UNCHANGED <<input, output, luhn_valid, backends, attempts>>
    /\ UNCHANGED packVars

NextOcr == GetBackendsForMode \/ OcrRoi \/ RunOcrBackendsReturn

SpecOcr == InitOcr /\ [][NextOcr]_vars

\* ------------------------------------------------------------------------
\* Properties of the PAN primitives
\* ------------------------------------------------------------------------

\* the text holds a masking marker: an asterisk or a bullet
HasMaskMarker(text) == \E i \in 1..Len(text) : text[i] \in {"*", "U+2022"}

HasValidator(det, tag) == \E i \in 1..Len(det.validators) : det.validators[i] = tag

BoxInside(inner, outer) ==
    /\ outer[1] <= inner[1] /\ outer[2] <= inner[2]
    /\ inner[3] <= outer[3] /\ inner[4] <= outer[4]

\* the detection was built from the span: from the span alone, or from a
\* stitched window the span is part of
YieldedBy(det, span) ==
    /\ det.page = span.page
    /\ IF HasValidator(det, "stitch")
       THEN LowerSource(span.source) = "ocr" /\ BoxInside(span.bbox, det.bbox)
       ELSE det.bbox = span.bbox

RECURSIVE ReferenceSum(_, _)
\* the mod-10 reference checksum: the k-th digit counted from the right is
\* doubled, and its two digits added, when k is even
ReferenceSum(digits, k) ==
    IF k > Len(digits) THEN 0
    ELSE LET value == DigitValue(digits[Len(digits) - k + 1])
         IN  (IF k % 2 = 0 THEN ((2 * value) \div 10) + ((2 * value) % 10) ELSE value)
             + ReferenceSum(digits, k + 1)

LuhnReference(digits) == ReferenceSum(digits, 1) % 10 = 0

AllDigits(text) == text # <<>> /\ \A i \in 1..Len(text) : text[i] \in Digit

\* the text is a number printed in groups: digits with single spaces or
\* hyphens between them
PlainNumber(text) ==
    /\ text # <<>>
    /\ \A i \in 1..Len(text) : text[i] \in Digit \cup {" ", "-"}
    /\ text[1] \in Digit /\ text[Len(text)] \in Digit

\* the digits of a text, in order
NumberDigits(text) == LET IsDecimal(ch) == ch \in Digit IN SelectSeq(text, IsDecimal)

\* the text is a number of 13 to 19 digits that fails the reference check
FailingNumber(text) ==
    /\ PlainNumber(text)
    /\ Len(NumberDigits(text)) \in 13..19
    /\ ~LuhnReference(NumberDigits(text))

DetectionPaths == {"find_card_pans", "find_pan_candidates_from_roi_text"}

\* the digits a detection was classified on: its raw string, or for a stitched
\* detection the normalisation of the window text it keeps as raw
ClassifiedDigits(det) ==
    IF HasValidator(det, "stitch")
    THEN _normalize_stitched_candidate(det.raw, input.cfg,
                                       HasValidator(det, "confusable:b->6"))
    ELSE det.raw

\* C9: a token whose text contains a masking marker (asterisk or bullet)
\* never yields a card_pan detection from find_card_pans, neither through
\* single-token extraction nor through a stitched window that includes it.
C9_MaskedTokenYieldsNoDetection ==
    called = "find_card_pans"
        => \A d \in 1..Len(output) : \A s \in 1..Len(input.spans) :
              HasMaskMarker(input.spans[s].text) => ~YieldedBy(output[d], input.spans[s])

\* C10: no detection of severity suspicion produced by any PAN detection
\* path carries the luhn validator tag.
C10_SuspicionNeverTaggedLuhn ==
    called # None
        => \A d \in 1..Len(output) :
              output[d].severity = "suspicion" => ~HasValidator(output[d], "luhn")

\* C11: every card_pan detection of severity hit, from single-token
\* extraction, the stitcher or ROI text parsing, carries the luhn validator
\* tag and the digits it was classified on pass the reference Luhn check; a
\* candidate of 13 to 19 digits that fails the check is never emitted as a hit.
C11_HitPassesLuhn ==
    /\ called \in DetectionPaths
           => \A d \in 1..Len(output) :
                 output[d].severity = "hit"
                     => /\ HasValidator(output[d], "luhn")
                        /\ LuhnReference(ClassifiedDigits(output[d]))
    /\ called = "find_card_pans"
           => \A s \in 1..Len(input.spans) :
                 FailingNumber(input.spans[s].text)
                     => ~\E d \in 1..Len(output) :
                            /\ output[d].severity = "hit"
                            /\ ~HasValidator(output[d], "stitch")
                            /\ output[d].bbox = input.spans[s].bbox
    /\ called = "find_pan_candidates_from_roi_text"
           => (FailingNumber(input.text) => ~HasSeverity(output, "hit"))

\* the stitcher classified a window as a hit
C11_StitchedHit ==
    /\ called = "find_card_pans"
    /\ \E d \in 1..Len(output) :
           /\ output[d].severity = "hit"
           /\ HasValidator(output[d], "stitch")
           /\ Len(output[d].raw) > Len(ClassifiedDigits(output[d]))

\* C12: every card_pan detection emitted by find_card_pans, single-token or
\* stitched, has a raw string that consists only of decimal digits and has
\* length between 13 and 19.
C12_RawIsDigitString ==
    called = "find_card_pans"
        => \A d \in 1..Len(output) :
              /\ AllDigits(output[d].raw)
              /\ 13 <= Len(output[d].raw)
              /\ Len(output[d].raw) <= 19

\* C13: for every digit string of length 13 to 19, _luhn returns true exactly
\* when the mod-10 checksum holds with doubling applied to every second digit
\* counted from the right (the rightmost digit never doubled), for odd and
\* even lengths alike.
C13_LuhnMatchesReference ==
    called = "_luhn"
        => /\ Len(input.digits) \in PanLengths
           /\ luhn_valid <=> LuhnReference(input.digits)

\* _luhn accepted a string of odd length whose doubled digits carry
C13_OddLengthAccepted ==
    /\ called = "_luhn"
    /\ Len(input.digits) = 15
    /\ luhn_valid
    /\ input.digits[Len(input.digits) - 1] \in {"5", "6", "7", "8", "9"}

\* the suspicion threshold find_card_pans works with
ClampedThreshold ==
    LET t == input.cfg.ocr_conf_suspicion_threshold
    IN  IF t < 0 THEN 0 ELSE IF t > 100 THEN 100 ELSE t

\* the detections single-token extraction built from the span
SingleTokenDetections(span) ==
    {d \in 1..Len(output) :
        ~HasValidator(output[d], "stitch") /\ output[d].bbox = span.bbox}

\* C14: for a single-token candidate of 13 to 19 digits that fails Luhn,
\* find_card_pans emits exactly one suspicion detection when the token's
\* source is 'ocr' and its confidence (a missing one counting as 0) is
\* strictly below the threshold clamped to [0,1], and nothing otherwise; a
\* token from a non-OCR source never yields a suspicion.
C14_FailingTokenSuspicion ==
    called = "find_card_pans"
        => \A s \in 1..Len(input.spans) :
              LET span == input.spans[s]
                  conf == IF span.ocr_conf = <<>> THEN 0 ELSE span.ocr_conf[1]
                  low == span.source = "ocr" /\ conf < ClampedThreshold
              IN  /\ FailingNumber(span.text)
                       => /\ Cardinality(SingleTokenDetections(span))
                               = (IF low THEN 1 ELSE 0)
                          /\ \A d \in SingleTokenDetections(span) :
                                 output[d].severity = "suspicion"
                  /\ span.source # "ocr"
                       => \A d \in SingleTokenDetections(span) :
                              output[d].severity # "suspicion"

\* an OCR token without a confidence failed the check and became a suspicion
C14_MissingConfidenceSuspicion ==
    /\ called = "find_card_pans"
    /\ \E s \in 1..Len(input.spans) :
           /\ FailingNumber(input.spans[s].text)
           /\ input.spans[s].source = "ocr"
           /\ input.spans[s].ocr_conf = <<>>
           /\ ClampedThreshold # input.cfg.ocr_conf_suspicion_threshold
           /\ SingleTokenDetections(input.spans[s]) # {}

\* spans i..j of the input are a window of the stitcher: neighbouring OCR
\* tokens of one text row, each of them digit-like
IsWindow(i, j) ==
    /\ i < j
    /\ j - i + 1 <= input.cfg.stitch_window_max
    /\ \A k \in i..j :
           /\ input.spans[k].source = "ocr"
           /\ input.spans[k].bbox[2] = input.spans[i].bbox[2]
           /\ _is_digitish(input.spans[k].text, input.cfg)

RECURSIVE WindowText(_, _)
\* the texts of spans i..j with one space between neighbours
WindowText(i, j) ==
    IF i >= j THEN input.spans[i].text
    ELSE input.spans[i].text \o <<" ">> \o WindowText(i + 1, j)

WindowDigits(i, j, allow_b_to_6) ==
    _normalize_stitched_candidate(WindowText(i, j), input.cfg, allow_b_to_6)

WindowBBox(i, j) ==
    <<input.spans[i].bbox[1], input.spans[i].bbox[2],
      input.spans[j].bbox[3], input.spans[j].bbox[4]>>

WindowConfs(i, j) ==
    [k \in 1..(j - i + 1) |->
        IF input.spans[i + k - 1].ocr_conf = <<>> THEN 0
        ELSE input.spans[i + k - 1].ocr_conf[1]]

RECURSIVE SumOf(_)
SumOf(numbers) == IF numbers = <<>> THEN 0 ELSE Head(numbers) + SumOf(Tail(numbers))

\* the window's average confidence is below the suspicion threshold, or its
\* smallest token confidence below the minimum-token threshold
WindowLowConf(i, j) ==
    \/ SumOf(WindowConfs(i, j)) < ClampedThreshold * (j - i + 1)
    \/ \E k \in 1..(j - i + 1) :
           WindowConfs(i, j)[k] < input.cfg.min_token_conf_threshold

\* the second pass, with b read as 6, applies to the window and passes
SecondPassPasses(i, j) ==
    /\ input.cfg.allow_lowercase_b_to_6
    /\ \E k \in 1..Len(WindowText(i, j)) : WindowText(i, j)[k] \in {"b", "B"}
    /\ Len(WindowDigits(i, j, TRUE)) \in PanLengths
    /\ LuhnReference(WindowDigits(i, j, TRUE))

\* the window holds 13 to 19 digits that fail the Luhn check, also after the
\* second pass
FailingWindow(i, j) ==
    /\ IsWindow(i, j)
    /\ Len(WindowDigits(i, j, FALSE)) \in PanLengths
    /\ ~LuhnReference(WindowDigits(i, j, FALSE))
    /\ ~SecondPassPasses(i, j)

\* the stitched detections of the output that cover exactly spans i..j
WindowDetections(i, j) ==
    {d \in 1..Len(output) :
        HasValidator(output[d], "stitch") /\ output[d].bbox = WindowBBox(i, j)}

\* C15: for a stitched window whose normalized digits (13 to 19 of them) fail
\* Luhn, also after the optional b->6 second pass, the stitcher emits a
\* suspicion tagged near_pan when the window's average confidence is below
\* the suspicion threshold or its minimum token confidence is below the
\* minimum-token threshold, and nothing for that window otherwise; it never
\* emits a hit for such a window. (Of several windows with the same digits
\* the stitcher keeps one detection.)
C15_FailingWindowNearPan ==
    called = "find_card_pans"
        => \A i \in 1..Len(input.spans) : \A j \in 1..Len(input.spans) :
              FailingWindow(i, j)
                  => /\ \A d \in WindowDetections(i, j) :
                            /\ output[d].severity = "suspicion"
                            /\ HasValidator(output[d], "near_pan")
                            /\ ~HasValidator(output[d], "luhn")
                     /\ ~WindowLowConf(i, j) => WindowDetections(i, j) = {}
                     /\ WindowLowConf(i, j)
                            => \E d \in 1..Len(output) :
                                   /\ HasValidator(output[d], "stitch")
                                   /\ output[d].severity = "suspicion"
                                   /\ HasValidator(output[d], "near_pan")
                                   /\ ClassifiedDigits(output[d]) = WindowDigits(i, j, FALSE)

\* a failing window became a suspicion only for its weakest token: its
\* average confidence is not below the threshold
C15_MinimumTokenSuspicion ==
    /\ called = "find_card_pans"
    /\ \E i \in 1..Len(input.spans) : \E j \in 1..Len(input.spans) :
           /\ FailingWindow(i, j)
           /\ SumOf(WindowConfs(i, j)) >= ClampedThreshold * (j - i + 1)
           /\ WindowDetections(i, j) # {}

BSixTag == "confusable:b->6"

\* the characters of a stitched raw text that stand for a digit each
DigitMarks(raw) ==
    LET Stands(ch) == ch \in Digit \cup {"O", "o", "I", "i", "l", "S", "s", "B", "b",
                                         "Z", "z", "%"}
    IN  SelectSeq(raw, Stands)

\* the digit the detection shows for every lowercase b among the last four
\* characters of its raw text is the given one
ShowsBAs(det, digit) ==
    LET marks == DigitMarks(det.raw)
        shown == NumberDigits(det.text)
    IN  /\ Len(shown) = 4
        /\ Len(marks) >= 4
        /\ \A k \in 1..4 : marks[Len(marks) - 4 + k] = "b" => shown[k] = digit

\* the second pass applies to the window: the option is on, the digits of the
\* first pass fail the Luhn check and those of the second pass it
SecondPassUsed(i, j) ==
    /\ IsWindow(i, j)
    /\ Len(WindowDigits(i, j, FALSE)) \in PanLengths
    /\ ~LuhnReference(WindowDigits(i, j, FALSE))
    /\ SecondPassPasses(i, j)

\* C16: lowercase b is normalized to 6 only in the stitcher's second pass,
\* which runs only when allow_lowercase_b_to_6 is enabled and the primary
\* normalization failed Luhn; a stitched hit carries the tag confusable:b->6
\* if and only if its digits came from that second pass.
C16_BToSixOnlyInSecondPass ==
    called = "find_card_pans"
        => /\ \A d \in 1..Len(output) :
                 IF HasValidator(output[d], BSixTag)
                 THEN /\ HasValidator(output[d], "stitch")
                      /\ output[d].severity = "hit"
                      /\ input.cfg.allow_lowercase_b_to_6
                      /\ ~LuhnReference(_normalize_stitched_candidate(
                                            output[d].raw, input.cfg, FALSE))
                      /\ ShowsBAs(output[d], "6")
                 ELSE IF HasValidator(output[d], "stitch")
                      THEN ShowsBAs(output[d], "8")
                      ELSE \A i \in 1..Len(output[d].raw) : output[d].raw[i] # "b"
           /\ \A s \in 1..Len(input.spans) : \A d \in SingleTokenDetections(input.spans[s]) :
                 /\ Len(output[d].raw) = Len(input.spans[s].text)
                       => \A i \in 1..Len(output[d].raw) :
                              input.spans[s].text[i] = "b" => output[d].raw[i] = "8"
           /\ \A i \in 1..Len(input.spans) : \A j \in 1..Len(input.spans) :
                 SecondPassUsed(i, j)
                     => /\ \A d \in WindowDetections(i, j) :
                               HasValidator(output[d], BSixTag)
                        /\ \E d \in 1..Len(output) :
                               /\ HasValidator(output[d], "stitch")
                               /\ output[d].severity = "hit"
                               /\ output[d].text = _mask(WindowDigits(i, j, TRUE))

\* a stitched hit whose b, shown as 6, came from the second pass
C16_SecondPassHit ==
    /\ called = "find_card_pans"
    /\ \E d \in 1..Len(output) :
           /\ HasValidator(output[d], BSixTag)
           /\ \E k \in 1..4 :
                  LET marks == DigitMarks(output[d].raw)
                  IN  /\ marks[Len(marks) - 4 + k] = "b"
                      /\ NumberDigits(output[d].text)[k] = "6"

\* C12 as the code has it: a single-token detection of find_card_pans has a
\* raw string of 13 to 19 decimal digits; a stitched detection keeps as raw the
\* texts of its window's tokens joined by single spaces, and the digits that
\* text normalizes to number 13 to 19.
C12_RawPerPath ==
    called = "find_card_pans"
        => \A d \in 1..Len(output) :
              IF HasValidator(output[d], "stitch")
              THEN /\ \E i \in 1..Len(input.spans) : \E j \in 1..Len(input.spans) :
                          /\ IsWindow(i, j)
                          /\ output[d].bbox = WindowBBox(i, j)
                          /\ output[d].raw = strip(WindowText(i, j))
                   /\ Len(ClassifiedDigits(output[d])) \in PanLengths
                   /\ AllDigits(ClassifiedDigits(output[d]))
              ELSE /\ AllDigits(output[d].raw)
                   /\ Len(output[d].raw) \in PanLengths

\* a stitched detection whose raw string holds a space and a letter
C12_StitchedRawIsText ==
    /\ called = "find_card_pans"
    /\ \E d \in 1..Len(output) :
           /\ HasValidator(output[d], "stitch")
           /\ \E i \in 1..Len(output[d].raw) : output[d].raw[i] = " "
           /\ \E i \in 1..Len(output[d].raw) : output[d].raw[i] = "b"

\* ------------------------------------------------------------------------
\* Properties of the OCR backend registry
\* ------------------------------------------------------------------------

\* run_ocr_backends has returned
OcrReturned == called = "run_ocr_backends"

\* the outcome of the ocr_roi call behind the k-th attempt
OutcomeOf(k) == input.outcome[backends[k]]

\* C17: in run_ocr_backends any exception raised by a backend's ocr_roi call
\* (BackendUnavailable or any other) becomes one attempt record with
\* success=false and an error message, the remaining backends of the chain
\* are still invoked in order, and no exception propagates to the caller.
C17_FailureBecomesAttempt ==
    /\ called # "raised"
    /\ Len(attempts) <= Len(backends)
    /\ \A k \in 1..Len(attempts) :
           /\ attempts[k].engine = _FACTORIES[backends[k]]
           /\ OutcomeOf(k) # "result"
                 => /\ attempts[k].success = FALSE
                    /\ attempts[k].error # None
    /\ OcrReturned => Len(attempts) = Len(backends)

\* a backend raised an exception that is no BackendUnavailable, and the next
\* backend of the chain was invoked and returned a result
C17_ChainContinuedAfterException ==
    /\ OcrReturned
    /\ \E k \in 1..(Len(attempts) - 1) :
           /\ OutcomeOf(k) = "Exception"
           /\ attempts[k].success = FALSE
           /\ attempts[k + 1].success = TRUE

\* the attempt log holds a failed attempt that names the backend
FailedAttemptNames(name) ==
    \E a \in 1..Len(attempts) :
        attempts[a].engine = _FACTORIES[name] /\ attempts[a].success = FALSE

AttemptNames(name) ==
    \E a \in 1..Len(attempts) : attempts[a].engine = _FACTORIES[name]

\* the backends of the mode's sequence
SequenceBackends ==
    {_sequence_for_mode(input.mode)[k] : k \in 1..Len(_sequence_for_mode(input.mode))}

\* C18: for every backend in the selected mode's sequence that is
\* unavailable, the attempt log returned by run_ocr_backends contains a
\* failed attempt record naming that backend.
C18_UnavailableBackendLogged ==
    OcrReturned
        => \A name \in SequenceBackends :
              ~input.available[name] => FailedAttemptNames(name)

\* C18 as the code has it: a backend of the sequence that is available when
\* the backends are selected and whose ocr_roi raises BackendUnavailable has a
\* failed attempt naming it in the returned log; a backend whose
\* is_available() is false is not invoked and has no attempt record.
C18_InvokedUnavailableLogged ==
    OcrReturned
        => \A name \in SequenceBackends :
              IF input.available[name]
              THEN input.outcome[name] = "BackendUnavailable" => FailedAttemptNames(name)
              ELSE ~AttemptNames(name)

\* Apple Vision is not installed and PaddleOCR gave up when called: the log
\* names PaddleOCR and not Apple Vision
C18_SkippedAndLogged ==
    /\ OcrReturned
    /\ input.mode = "auto"
    /\ ~input.available["apple"]
    /\ input.available["paddle"]
    /\ input.outcome["paddle"] = "BackendUnavailable"
    /\ FailedAttemptNames("paddle")
    /\ ~AttemptNames("apple")

\* the backends of the run whose ocr_roi returned a result, in chain order
SuccessfulBackends ==
    LET Succeeds(name) == input.outcome[name] = "result"
    IN  SelectSeq(backends, Succeeds)

\* C19: run_ocr_backends always returns a non-empty result list: one result
\* per successful backend, in chain order, or, when every backend attempt
\* failed, exactly one synthetic empty result (empty text, confidence 0,
\* engine none); the attempt log holds exactly one record per backend
\* invoked, in invocation order.
C19_ResultsNeverEmpty ==
    OcrReturned
        => /\ results # <<>>
           /\ IF SuccessfulBackends = <<>>
              THEN results = <<[text |-> <<>>, avg_conf |-> 0, engine |-> "none"]>>
              ELSE /\ Len(results) = Len(SuccessfulBackends)
                   /\ \A k \in 1..Len(results) :
                          /\ results[k].engine = _FACTORIES[SuccessfulBackends[k]]
                          /\ results[k].text = input.reading.text
                          /\ results[k].avg_conf = input.reading.avg_conf
           /\ Len(attempts) = Len(backends)
           /\ \A k \in 1..Len(attempts) :
                  /\ attempts[k].engine = _FACTORIES[backends[k]]
                  /\ attempts[k].success <=> OutcomeOf(k) = "result"

\* every backend of a chain of three failed and the one result is the
\* synthetic one
C19_AllFailedSynthetic ==
    /\ OcrReturned
    /\ Len(attempts) = 3
    /\ \A k \in 1..Len(attempts) : attempts[k].success = FALSE
    /\ Len(results) = 1
    /\ results[1].engine = "none"

\* the modes that name a single backend
NamedModes == {"tesseract", "apple", "paddle", "easy"}

\* the engines of the attempt log, in invocation order
InvokedEngines == [k \in 1..Len(attempts) |-> attempts[k].engine]

\* the available backends of the default chain, in chain order, by engine name
DefaultChainEngines ==
    LET Available(name) == input.available[name]
        chain == SelectSeq(<<"apple", "paddle", "tesseract">>, Available)
    IN  [k \in 1..Len(chain) |-> _FACTORIES[chain[k]]]

\* C20: when the mode names a single backend (tesseract, apple, paddle or
\* easy), run_ocr_backends invokes no backend other than the named one; in
\* the default chain the available backends are invoked in the fixed chain
\* order apple, paddle, tesseract.
C20_OnlyNamedBackendInvoked ==
    /\ input.mode \in NamedModes
          => \A k \in 1..Len(attempts) : attempts[k].engine = _FACTORIES[input.mode]
    /\ (input.mode \notin NamedModes /\ OcrReturned)
          => InvokedEngines = DefaultChainEngines

\* C20 as the code has it: when the mode names a single backend,
\* run_ocr_backends invokes the named backend and no other if it is
\* available, and Tesseract and no other if it is not; in the default chain
\* the available backends are invoked in the order apple, paddle, tesseract.
C20_NamedOrFallbackInvoked ==
    /\ input.mode \in NamedModes
          => /\ \A k \in 1..Len(attempts) :
                    attempts[k].engine = (IF input.available[input.mode]
                                          THEN _FACTORIES[input.mode]
                                          ELSE "tesseract")
             /\ OcrReturned => Len(attempts) = 1
    /\ (input.mode \notin NamedModes /\ OcrReturned)
          => InvokedEngines = DefaultChainEngines

\* the mode names EasyOCR, which is not installed: Tesseract was invoked
C20_FallbackInvoked ==
    /\ OcrReturned
    /\ input.mode = "easy"
    /\ ~input.available["easy"]
    /\ InvokedEngines = <<"tesseract">>

\* ------------------------------------------------------------------------
\* Forced redaction, suggestions and quality reasons of the image packs
\* ------------------------------------------------------------------------

IsCardPack == pack = "global.card_photo.v1"

\* the run blacked out the suggested boxes: the renderer ran and no
\* verification followed it, as it does after every confirmed redaction
ForcedRedactionApplied ==
    /\ IsCardPack
    /\ Invocations("render_redact_from_boxes") = 1
    /\ Invocations("_verify_redaction") = 0
    /\ pc \in {"report", "done"}

\* C21: in global.card_photo.v1 the suggested boxes are redacted only when
\* force_band_redact is set, the decision is REVIEW and suggestions are
\* allowed; the report then carries action FORCED_REDACT_REVIEW and its
\* decision stays REVIEW.  The action is non-null exactly when such a forced
\* redaction was applied, and never together with decision CONFIRMED.
C21_ForcedRedactionOnlyUnderFlag ==
    IsCardPack =>
        /\ ForcedRedactionApplied
              => /\ force_band_redact
                 /\ allow_suggestions
                 /\ decision = "REVIEW"
                 /\ action = "FORCED_REDACT_REVIEW"
                 /\ post_redaction = [forced |-> TRUE, boxes |-> Len(suggested_boxes)]
        /\ (pc \in {"report", "done"}) => (action # None <=> ForcedRedactionApplied)
        /\ action # None => decision # "CONFIRMED"

\* a final card report that carries the forced action
C21_ForcedReport ==
    /\ IsCardPack
    /\ FinalReport
    /\ action = "FORCED_REDACT_REVIEW"
    /\ decision = "REVIEW"
    /\ redacted_pdf = RedactedPath

\* a card_pan detection of the run that came from the given source
CardPanFrom(source) ==
    \E i \in 1..Len(detections) :
        detections[i].field_id = "card_pan" /\ detections[i].source = source

\* C22: in global.card_photo.v1 the report's suggested_redactions list is
\* non-empty only if the final decision is REVIEW, a visual PAN pattern was
\* detected and no roi_ocr card_pan detection (hit or suspicion) exists; the
\* reasons then include PAN_SUSPECT_VISUAL.
C22_SuggestionsOnlyForVisualReview ==
    (IsCardPack /\ suggested_redactions # <<>>)
        => /\ FinalReport
           /\ decision = "REVIEW"
           /\ CardPanFrom("visual")
           /\ ~CardPanFrom("roi_ocr")
           /\ HasReason({"PAN_SUSPECT_VISUAL"})

\* a final card report that lists a suggested box
C22_SuggestionReported ==
    /\ IsCardPack
    /\ FinalReport
    /\ Len(suggested_redactions) > 0
    /\ action = None

IsImagePack == pack \in {"global.card_photo.v1", "global.id_photo.v1"}

\* the quality signals of the pages, read against the pack's blur threshold
OcclusionFlagged == \E i \in 1..Len(preprocess) : preprocess[i].occlusion_suspected

BlurLow ==
    \E i \in 1..Len(preprocess) :
        preprocess[i].blur_score < (IF IsCardPack THEN blur_max ELSE id_blur_min)

\* _decide has run past its CONFIRMED return and its reasons still stand
ReachedQualityReasons ==
    /\ IsImagePack
    /\ pc \in {"decided", "report", "done"}
    /\ decision # "CONFIRMED"
    /\ Invocations("_verify_redaction") = 0

\* C23: in the image packs occlusion and low blur are reported under separate
\* reason codes: on a run that reaches the quality reasons, an occlusion flag
\* without low blur yields OCCLUSION and no QUALITY_LOW, and low blur without
\* an occlusion flag yields QUALITY_LOW and no OCCLUSION.
C23_SeparateQualityReasons ==
    ReachedQualityReasons
        => /\ (OcclusionFlagged /\ ~BlurLow)
                 => (HasReason({"OCCLUSION"}) /\ ~HasReason({"QUALITY_LOW"}))
           /\ (BlurLow /\ ~OcclusionFlagged)
                 => (HasReason({"QUALITY_LOW"}) /\ ~HasReason({"OCCLUSION"}))

\* C29: global.card_photo.v1 never finalizes with decision REJECTED: for
\* every input (any number of pages, any detector boxes, any blur and
\* occlusion values) the final decision is CONFIRMED or REVIEW, because a card
\* region is always resolved and a low blur score always adds a reason before
\* the REJECTED test.
C29_CardNeverRejected ==
    IsCardPack
        => /\ decision # "REJECTED"
           /\ FinalReport => decision \in {"CONFIRMED", "REVIEW"}
           /\ (pc \in {"pages", "decided"} /\ preprocess # <<>>) => card_candidate_present

\* a blurred card photo without any detection ends in REVIEW
C29_BlurredBlankReviewed ==
    /\ IsCardPack
    /\ FinalReport
    /\ preprocess # <<>>
    /\ BlurLow
    /\ detections = <<>>
    /\ decision = "REVIEW"
    /\ reasons = <<"QUALITY_LOW">>

\* C30: in global.card_photo.v1 and global.id_photo.v1, whenever the decision
\* engine returns CONFIRMED and at least one redaction box exists, the
\* verification step runs to completion over the redacted artifact and
\* run_pack returns a report (CONFIRMED or REVIEW) instead of raising.
C30_VerificationReturnsReport ==
    IsImagePack
        => /\ pc # "raised"
           /\ Invocations("_verify_redaction") > 0
                 => /\ pc \in {"report", "done"}
                    /\ decision \in {"CONFIRMED", "REVIEW"}
                    /\ post_redaction.checked > 0

\* ------------------------------------------------------------------------
\* Properties of single-token extraction and of the stitcher's dedup
\* ------------------------------------------------------------------------

\* the character at idx is a confusable letter next to a digit
AdjacentConfusable(text, idx) ==
    /\ text[idx] \in DOMAIN CONFUSABLE_MAP
    /\ \/ idx > 1 /\ text[idx - 1] \in Digit
       \/ idx < Len(text) /\ text[idx + 1] \in Digit

RECURSIVE ContributingDigits(_, _, _)
\* the digits a token's text may contribute from position idx on: its digits
\* and, when confusables are normalised, its digit-adjacent confusables
ContributingDigits(text, idx, allow_confusable) ==
    IF idx > Len(text) THEN <<>>
    ELSE (IF text[idx] \in Digit THEN <<text[idx]>>
          ELSE IF allow_confusable /\ AdjacentConfusable(text, idx)
               THEN <<CONFUSABLE_MAP[text[idx]]>>
               ELSE <<>>)
         \o ContributingDigits(text, idx + 1, allow_confusable)

\* part occurs in whole as a run of consecutive elements
IsInfix(part, whole) ==
    \E k \in 0..(Len(whole) - Len(part)) : SubSeq(whole, k + 1, k + Len(part)) = part

\* C25: in single-token extraction a confusable letter that is not
\* immediately adjacent to a digit never contributes a digit to a candidate:
\* the digit string that is length-checked and Luhn-checked consists only of
\* the digits and digit-adjacent confusables covered by the sanitized match.
C25_IsolatedConfusableNoDigit ==
    called = "find_card_pans"
        => \A d \in 1..Len(output) : \A s \in 1..Len(input.spans) :
              (/\ ~HasValidator(output[d], "stitch")
               /\ output[d].page = input.spans[s].page
               /\ output[d].bbox = input.spans[s].bbox)
                  => IsInfix(output[d].raw,
                             ContributingDigits(input.spans[s].text, 1,
                                                input.cfg.allow_confusable_normalization))

\* candidate a ranks above candidate b: higher severity, then higher average
\* confidence, then larger window, then smaller left x coordinate
RanksAbove(a, b) ==
    LET Rank(c) == IF c.severity = "hit" THEN 2 ELSE 1
        avgA == a.avg_conf[1] * b.avg_conf[2]
        avgB == b.avg_conf[1] * a.avg_conf[2]
    IN  \/ Rank(a) > Rank(b)
        \/ Rank(a) = Rank(b) /\ avgA > avgB
        \/ Rank(a) = Rank(b) /\ avgA = avgB /\ a.window_size > b.window_size
        \/ Rank(a) = Rank(b) /\ avgA = avgB /\ a.window_size = b.window_size
              /\ a.x0 < b.x0

SameKey(a, b) == a.page = b.page /\ a.normalized = b.normalized

\* the i-th candidate is the first of those no candidate of its key ranks above
FirstGreatest(cands, i) ==
    \A j \in 1..Len(cands) :
        SameKey(cands[j], cands[i])
            => /\ ~RanksAbove(cands[j], cands[i])
               /\ j < i => RanksAbove(cands[i], cands[j])

StitchedOutput == {output[d] : d \in {e \in 1..Len(output) : HasValidator(output[e], "stitch")}}

StitchedCount == Cardinality({d \in 1..Len(output) : HasValidator(output[d], "stitch")})

\* what the stitcher has to emit for the candidates it evaluated
DedupKeeps(cands) ==
    /\ StitchedOutput = {cands[i].detection : i \in {k \in 1..Len(cands) : FirstGreatest(cands, k)}}
    /\ StitchedCount = Cardinality({<<cands[i].page, cands[i].normalized>> : i \in 1..Len(cands)})

\* C26: after stitching at most one stitched detection exists per (page,
\* normalized digits) key, and it is the candidate greatest under the order
\* higher severity, then higher average confidence, then larger window, then
\* smaller left x; on a full tie the first-evaluated candidate is kept.
C26_DedupKeepsGreatest ==
    called = "find_card_pans"
        => DedupKeeps(stitch_candidates(input.spans, input.cfg, ClampedThreshold))

\* a later candidate displaced an earlier one of its key
DedupReplaced(cands) ==
    \E i, j \in 1..Len(cands) :
        /\ i < j
        /\ SameKey(cands[i], cands[j])
        /\ RanksAbove(cands[j], cands[i])
        /\ cands[j].detection \in StitchedOutput
        /\ cands[i].detection \notin StitchedOutput

C26_LaterCandidateKept ==
    /\ called = "find_card_pans"
    /\ DedupReplaced(stitch_candidates(input.spans, input.cfg, ClampedThreshold))

\* every window that passed the Luhn check lies inside an emitted hit box
WindowsCovered(cands) ==
    \A i \in 1..Len(cands) :
        cands[i].severity = "hit"
            => \E d \in 1..Len(output) :
                  /\ output[d].severity = "hit"
                  /\ output[d].page = cands[i].page
                  /\ BoxInside(cands[i].detection.bbox, output[d].bbox)

\* C28: for every page, every stitched window that passes Luhn lies inside
\* the bounding box of some emitted hit detection: when the same PAN occurs
\* twice on one page in non-overlapping windows (for example on two lines),
\* each occurrence is covered by a hit box handed to redaction.
C28_EveryPassingWindowCovered ==
    called = "find_card_pans"
        => WindowsCovered(stitch_candidates(input.spans, input.cfg, ClampedThreshold))

\* ------------------------------------------------------------------------
\* _select_best_result of the image packs
\* ------------------------------------------------------------------------

\* the comparison that also lets an equal key replace the best one
key_greater_or_equal(cand_key, best_key) ==
    ~ \E i \in 1..Len(cand_key) :
          /\ cand_key[i] < best_key[i]
          /\ \A j \in 1..(i - 1) : cand_key[j] = best_key[j]

\* cand_key > best_key on tuples of equal length
key_greater(cand_key, best_key) ==
    \E i \in 1..Len(cand_key) :
        /\ cand_key[i] > best_key[i]
        /\ \A j \in 1..(i - 1) : cand_key[j] = best_key[j]

\* OCRResult(text="", avg_conf=0.0, words=[], engine="none", elapsed_ms=0.0)
NoOcrResult == [text |-> <<>>, avg_conf |-> 0, engine |-> "none"]

\* _select_best_result of the card pack
card_select_best_result(ocr_results, prefer_digits) ==
    LET key(res) == <<IF prefer_digits THEN Len(DigitsOnly(res.text)) ELSE 0,
                      res.avg_conf, Len(res.text)>>
        RECURSIVE Pick(_, _)
        Pick(best, rest) ==
            IF rest = <<>> THEN best
            ELSE Pick(IF key_greater(key(Head(rest)), key(best)) THEN Head(rest) ELSE best,
                      Tail(rest))
    IN  IF ocr_results = <<>> THEN NoOcrResult
        ELSE Pick(Head(ocr_results), Tail(ocr_results))

\* _select_best_result of the id pack
id_select_best_result(ocr_results) ==
    LET key(res) == <<res.avg_conf, Len(res.text)>>
        RECURSIVE Pick(_, _)
        Pick(best, rest) ==
            IF rest = <<>> THEN best
            ELSE Pick(IF key_greater(key(Head(rest)), key(best)) THEN Head(rest) ELSE best,
                      Tail(rest))
    IN  IF ocr_results = <<>> THEN NoOcrResult
        ELSE Pick(Head(ocr_results), Tail(ocr_results))

\* what the backends of a chain can have read: texts that differ in length
\* and in their number of digits, with one of two confidences
SelectTexts == {<<>>, <<"4", "2">>, <<"4", "2", "x", "x">>, <<"4", "2", "4">>}

SelectConfs == {50, 90}

ChainEngines == <<"apple_vision", "paddleocr", "tesseract">>

\* the result lists run_ocr_backends can hand over: one result per engine of
\* a prefix of the chain
ResultLists ==
    UNION {{[k \in 1..n |-> [text |-> reads[k][1], avg_conf |-> reads[k][2],
                              engine |-> ChainEngines[k]]] :
               reads \in [1..n -> SelectTexts \X SelectConfs]} : n \in 0..Len(ChainEngines)}

SelectInputs ==
    {[kind |-> "select_card", ocr_results |-> rs, prefer_digits |-> p] :
        rs \in ResultLists, p \in BOOLEAN}
    \cup {[kind |-> "select_id", ocr_results |-> rs, prefer_digits |-> FALSE] :
             rs \in ResultLists}

InitSelect ==
    /\ input \in SelectInputs
    /\ output = <<>>
    /\ called = None
    /\ luhn_valid = FALSE
    /\ OcrIdle
    /\ pack = None
    /\ force_band_redact = FALSE
    /\ ocr_roi_bound = FALSE
    /\ PackIdle

CardSelectBestResult ==
    /\ called = None
    /\ input.kind = "select_card"
    /\ output' = card_select_best_result(input.ocr_results, input.prefer_digits)
    /\ called' = "card._select_best_result"
    /\ UNCHANGED <<input, luhn_valid>>
    /\ UNCHANGED ocrVars
    /\ UNCHANGED packVars

IdSelectBestResult ==
    /\ called = None
    /\ input.kind = "select_id"
    /\ output' = id_select_best_result(input.ocr_results)
    /\ called' = "id._select_best_result"
    /\ UNCHANGED <<input, luhn_valid>>
    /\ UNCHANGED ocrVars
    /\ UNCHANGED packVars

NextSelect == CardSelectBestResult \/ IdSelectBestResult

SpecSelect == InitSelect /\ [][NextSelect]_vars

SelectReturned == called \in {"card._select_best_result", "id._select_best_result"}

\* the ranking key of a result, as a triple: the count of digit characters
\* when digits are preferred, the average confidence, the text length
RankingKey(res) ==
    <<IF input.prefer_digits
      THEN Cardinality({i \in 1..Len(res.text) : res.text[i] \in Digit}) ELSE 0,
      res.avg_conf, Len(res.text)>>

\* key a comes before key b in the lexicographic order
RanksLower(a, b) ==
    \/ a[1] < b[1]
    \/ a[1] = b[1] /\ a[2] < b[2]
    \/ a[1] = b[1] /\ a[2] = b[2] /\ a[3] < b[3]

\* the i-th result is maximal under the key and no earlier result is
FirstMaximal(rs, i) ==
    /\ \A j \in 1..Len(rs) : ~RanksLower(RankingKey(rs[i]), RankingKey(rs[j]))
    /\ \A j \in 1..(i - 1) : RanksLower(RankingKey(rs[j]), RankingKey(rs[i]))

\* C27: _select_best_result returns the first result in chain order among
\* those maximal under the ranking key: with prefer_digits (digit count,
\* average confidence, text length) compared lexicographically, without it
\* (average confidence, text length).  A later result replaces an earlier
\* one only when its key is strictly greater.
C27_FirstMaximalSelected ==
    (SelectReturned /\ input.ocr_results # <<>>)
        => \E i \in 1..Len(input.ocr_results) :
              /\ output = input.ocr_results[i]
              /\ FirstMaximal(input.ocr_results, i)

\* two results tie on the greatest key and the earlier of them was returned
C27_TieResolvedToFirst ==
    /\ SelectReturned
    /\ \E i, j \in 1..Len(input.ocr_results) :
           /\ 1 < i /\ i < j
           /\ RankingKey(input.ocr_results[i]) = RankingKey(input.ocr_results[j])
           /\ FirstMaximal(input.ocr_results, i)
           /\ output = input.ocr_results[i]
====
